---- MODULE Spec2Model ----
(***************************************************************************)
(* Model of wizzle's migration core:                                       *)
(*   - buildSnapshotChain (src/utils.ts, shipped here as build.ts), the    *)
(*     resolver that orders migration folders by following prevId;         *)
(*   - dropMigration (src/cli/commands/drop.ts);                           *)
(*   - readMigrationFiles (src/runtime/migrator.ts);                       *)
(*   - migrateOldMigrationTable (src/runtime/migration-table-migrator.ts); *)
(*   - migrate of the drivers that build the ledger themselves             *)
(*     (src/runtime/drivers/d1.ts, sqlite-proxy.ts).                       *)
(*                                                                         *)
(* A migration folder "<timestamp>_<label>" is identified by its tag.  A   *)
(* tag t >= 0 stands for the folder whose name starts with the digits of   *)
(* t followed by "_"; the tag NoPrefix stands for a folder whose name has  *)
(* no numeric prefix.                                                      *)
(***************************************************************************)
EXTENDS Integers, Sequences, FiniteSets, TLC

\* ------------------------------------------------------------------ bounds
MaxTs == 2
MaxFolders == 3
MaxRuns == 3
MaxStmts == 2
MaxFaults == 1
MaxEntries == 2
MaxConversions == 2
MaxCalls == 3
MaxDrops == 1
MaxApplied == 2

\* --------------------------------------------------------------- constants
ROOT == "00000000-0000-0000-0000-000000000000"
EMPTY == ""
NoPrefix == -1
Overflow == -2

OpaqueIds == {"a", "b", "c"}
Ids == {ROOT, EMPTY} \cup OpaqueIds
\* A prevId can also name an id that no snapshot document carries.
PrevIds == Ids \cup {"z"}
Tags == NoPrefix .. MaxTs

Range(s) == {s[i] : i \in DOMAIN s}

\* A folder of the migrations directory.  snap is the state of its
\* snapshot.json: "none" (no such file), "bad" (JSON.parse throws) or "ok"
\* (parses; id and prevId are what the document carries, prevId = EMPTY also
\* standing for a document without prevId).  sql is the number of statements
\* of up.sql, or -1 when the file is missing.
Folder(t, s, i, p, q) == [tag |-> t, snap |-> s, id |-> i, prevId |-> p, sql |-> q]
NoFolder == [tag |-> Overflow, snap |-> "none", id |-> EMPTY, prevId |-> EMPTY, sql |-> -1]

FolderContents ==
    {<<"none", EMPTY, EMPTY>>, <<"bad", EMPTY, EMPTY>>}
        \cup {<<"ok", i, p>> : i \in Ids, p \in PrevIds}

VARIABLES
    dirExists,    \* the migrations folder exists on disk
    dir,          \* its subfolders: a set of Folder records with distinct tags
    outcome,      \* of the last buildSnapshotChain call: "none", "returned", "threw", "overflow"
    orderedTags,  \* the sequence that call returned
    dropped,      \* the folder dropMigration removed last, or NoFolder
    dropCall,     \* history: how the last dropMigration call ended, the folders it found
    bundleFile,   \* migrations.js of the migrations folder: [written, tags]
    newLedger,    \* the ledger table migrate writes: [exists, rows]
    oldLedger,    \* the legacy ledger table: [exists, hasTag, rows]
    applied,      \* the unit statements in effect in the target, in execution order
    runs,         \* per runner: the position and the locals of its migrate call
    started,      \* number of migrate calls made so far
    log,          \* history: what the target database was asked to execute, in order
    countAfter,   \* history: the ledger row count at the end of each completed call
    read,         \* what the last readMigrationFiles call on its own gave: [outcome, metas]
    legacy,       \* the journal-based source directory of generateFromJournal
    conv,         \* history: the last generateFromJournal call, what it found and what it did
    configFile,   \* drizzle.config.* as it is on disk
    cachedLegacyConfig,  \* the module variable of that name
    cfg,          \* history: the readLegacyDrizzleConfig calls since the last reset
    ledgerRun     \* a migrate call seen by table name: its driver, its config, the tables it touched

chainVars == <<dirExists, dir, outcome, orderedTags, dropped, dropCall, bundleFile>>
dbVars == <<newLedger, oldLedger, applied>>
runVars == <<runs, started, log, countAfter>>
configVars == <<configFile, cachedLegacyConfig, cfg>>
toolVars == <<read, legacy, conv, configFile, cachedLegacyConfig, cfg>>
vars == <<dirExists, dir, outcome, orderedTags, dropped, dropCall, bundleFile,
          newLedger, oldLedger, applied, runs, started, log, countAfter,
          read, legacy, conv, configFile, cachedLegacyConfig, cfg, ledgerRun>>

\* ------------------------------------------------------ buildSnapshotChain
getTimestamp(tag) == IF tag = NoPrefix THEN 0 ELSE tag

\* Array.prototype.sort with (a, b) => a.timestamp - b.timestamp: stable.
RECURSIVE SortByTimestamp(_)
InsertByTimestamp(s, x) ==
    LET k == Cardinality({i \in DOMAIN s : getTimestamp(s[i].tag) <= getTimestamp(x.tag)})
    IN  SubSeq(s, 1, k) \o <<x>> \o SubSeq(s, k + 1, Len(s))
SortByTimestamp_None(s) == s
SortByTimestamp(s) ==
    IF s = <<>> THEN <<>>
    ELSE InsertByTimestamp(SortByTimestamp(SubSeq(s, 1, Len(s) - 1)), s[Len(s)])

\* readdirSync(...).filter(isDirectory).filter(existsSync(snapshot.json))
HasSnapshot(f) == f.snap # "none"
SnapshotFolders(ls) == SelectSeq(ls, HasSnapshot)

\* The folders whose snapshot.json parsed, in listing order.
Parsed(f) == f.snap = "ok"
ParsedFolders_StopAtBad(ls) ==
    LET bad == {i \in DOMAIN SnapshotFolders(ls) : ~Parsed(SnapshotFolders(ls)[i])}
        stop == IF bad = {} THEN Len(SnapshotFolders(ls)) + 1
                ELSE CHOOSE i \in bad : \A j \in bad : i <= j
    IN  SubSeq(SnapshotFolders(ls), 1, stop - 1)
ParsedFolders(ls) == SelectSeq(SnapshotFolders(ls), Parsed)

\* snapshotMap.get(prevId) || []
SnapshotMapGet_First(units, p) ==
    LET HasPrev(f) == f.prevId = p
        found == SelectSeq(units, HasPrev)
    IN  IF found = <<>> THEN <<>> ELSE <<found[1]>>
SnapshotMapGet(units, p) ==
    LET HasPrev(f) == f.prevId = p IN SelectSeq(units, HasPrev)

\* roots = snapshotMap.get(ROOT) || snapshotMap.get('') || []
Roots_WithOrphans(units) ==
    LET Orphan(f) == f.prevId \in {ROOT, EMPTY} \/ \A g \in Range(units) : g.id # f.prevId
    IN  SelectSeq(units, Orphan)
Roots(units) ==
    IF SnapshotMapGet(units, ROOT) # <<>> THEN SnapshotMapGet(units, ROOT)
    ELSE SnapshotMapGet(units, EMPTY)

\* for (const child of sorted children) { push(child.tag); traverse(child.id) }
\* The recursion is unbounded in the code; a path longer than the number of
\* units repeats a unit, so it never ends: the call stack overflows.
RECURSIVE Traverse(_, _, _)
RECURSIVE EmitAll(_, _, _)
EmitAll_PostOrder(units, children, depth) ==
    IF children = <<>> THEN <<>>
    ELSE Traverse(units, children[1].id, depth + 1) \o <<children[1].tag>>
             \o EmitAll(units, SubSeq(children, 2, Len(children)), depth)
EmitAll(units, children, depth) ==
    IF children = <<>> THEN <<>>
    ELSE <<children[1].tag>> \o Traverse(units, children[1].id, depth + 1)
             \o EmitAll(units, SubSeq(children, 2, Len(children)), depth)
Traverse(units, currentId, depth) ==
    IF depth > Len(units) THEN <<Overflow>>
    ELSE EmitAll(units, SortByTimestamp(SnapshotMapGet(units, currentId)), depth)

Returned(tags) == [outcome |-> "returned", tags |-> tags]
Threw(kind) == [outcome |-> kind, tags |-> <<>>]

\* The traversal from the sorted roots, or the overflow of the call stack.
ChainFrom(units, roots) ==
    LET Finish(out) == IF Overflow \in Range(out) THEN Threw("overflow") ELSE Returned(out)
    IN  IF roots = <<>> THEN Returned(<<>>)
        ELSE Finish(EmitAll(units, SortByTimestamp(roots), 0))

BuildSnapshotChain(exists, ls) ==
    IF ~exists THEN Threw("threw")
    ELSE IF SnapshotFolders(ls) = <<>> THEN Returned(<<>>)
    ELSE LET FromRoots(units) == ChainFrom(units, Roots(units))
         IN  FromRoots(ParsedFolders(ls))

\* The orders in which readdirSync may list the folders of d.
RECURSIVE Listings(_)
Listings(d) ==
    IF d = {} THEN {<<>>}
    ELSE UNION {{<<f>> \o ls : ls \in Listings(d \ {f})} : f \in d}

\* The results buildSnapshotChain can give for a directory.
ChainResults(exists, d) == {BuildSnapshotChain(exists, ls) : ls \in Listings(d)}

\* ------------------------------------------------------ readMigrationFiles
FolderOf(d, tag) == CHOOSE f \in d : f.tag = tag

\* One statement of an up.sql: the k-th of the folder with this tag.
Statements(f) == [k \in 1 .. f.sql |-> <<f.tag, k>>]
\* sha256 of the raw script: a function of the script's content.
Hash(f) == <<"sha256", f.tag, f.sql>>

MigrationMeta(f) ==
    [sql |-> Statements(f), folderMillis |-> f.tag, hash |-> Hash(f), tag |-> f.tag]

\* The loop over orderedTags: it throws at the first tag without a numeric
\* prefix or without up.sql, and otherwise pushes one entry per tag.
RECURSIVE ReadEach(_, _)
RECURSIVE ReadEach_Skipping(_, _)
ReadEach_Skipping(d, tags) ==
    IF tags = <<>> THEN [outcome |-> "returned", metas |-> <<>>]
    ELSE LET f == FolderOf(d, tags[1])
             rest == ReadEach_Skipping(d, SubSeq(tags, 2, Len(tags)))
         IN  IF f.tag = NoPrefix \/ f.sql < 0 \/ f.snap # "ok"
             THEN rest
             ELSE [outcome |-> "returned", metas |-> <<MigrationMeta(f)>> \o rest.metas]
ReadEach(d, tags) ==
    IF tags = <<>> THEN [outcome |-> "returned", metas |-> <<>>]
    ELSE LET f == FolderOf(d, tags[1])
             rest == ReadEach(d, SubSeq(tags, 2, Len(tags)))
         IN  IF f.tag = NoPrefix \/ f.sql < 0 \/ f.snap # "ok" \/ rest.outcome # "returned"
             THEN [outcome |-> "threw", metas |-> <<>>]
             ELSE [outcome |-> "returned", metas |-> <<MigrationMeta(f)>> \o rest.metas]

ReadMigrationFiles(exists, d, ls) ==
    IF ~exists THEN [outcome |-> "threw", metas |-> <<>>]
    ELSE LET Read(chain) ==
                 IF chain.outcome # "returned" THEN [outcome |-> "threw", metas |-> <<>>]
                 ELSE ReadEach(d, chain.tags)
         IN  Read(BuildSnapshotChain(exists, ls))

ReadResults(exists, d) == {ReadMigrationFiles(exists, d, ls) : ls \in Listings(d)}

\* ------------------------------------------------ migrateOldMigrationTable
NULL == "NULL"
Row(h, c, t) == [hash |-> h, created_at |-> c, tag |-> t]
NoRow == Row(<<>>, -1, NULL)

\* The calls migrateOldMigrationTable makes through its executor: five
\* probes and two commands.  Each of them can throw.
Probes == {"newExists", "newCount", "oldExists", "oldCount", "tagColumn"}
Commands == {"create", "copy"}
Calls == Probes \cup Commands

\* try { ... } catch (e) { return <negative> }: what a probe reports when the
\* calls of throws throw.
Probe_Answers(throws, call, answer, negative) == answer
Probe(throws, call, answer, negative) == IF call \in throws THEN negative ELSE answer

\* tableExists and countTableRows, when the probe does not throw.
TableExists(table) == table.exists
CountTableRows(table) == Len(table.rows)

\* INSERT INTO new (hash, created_at, tag) SELECT hash, created_at, tag|NULL FROM old
CopiedRows_NullTag(old, hasTagColumn) ==
    [i \in DOMAIN old.rows |-> Row(old.rows[i].hash, old.rows[i].created_at, NULL)]
CopiedRows(old, hasTagColumn) ==
    [i \in DOMAIN old.rows |->
        Row(old.rows[i].hash, old.rows[i].created_at,
            IF hasTagColumn THEN old.rows[i].tag ELSE NULL)]

\* The two tables the executor reaches.
Db(new, old) == [new |-> new, old |-> old]

\* What the database does with one command of migrateOldMigrationTable.
Execute_Moving(db, cmd) ==
    IF cmd.op = "create" THEN [db EXCEPT !.new.exists = TRUE]
    ELSE [db EXCEPT !.new.rows = @ \o CopiedRows(db.old, cmd.hasTagColumn),
                    !.old.rows = <<>>]
Execute(db, cmd) ==
    IF cmd.op = "create" THEN [db EXCEPT !.new.exists = TRUE]
    ELSE [db EXCEPT !.new.rows = @ \o CopiedRows(db.old, cmd.hasTagColumn)]

\* Steps 1 to 3 and the tag-column probe: the commands the call goes on to
\* issue, none when it returns early.
CommandsToIssue_OldWins(new, old, throws) ==
    IF ~TableExists(old) \/ CountTableRows(old) = 0 THEN <<>>
    ELSE <<[op |-> "create", hasTagColumn |-> FALSE],
           [op |-> "copy", hasTagColumn |-> old.hasTag]>>
CommandsToIssue_EagerCreate(new, old, throws) ==
    IF TableExists(new) /\ CountTableRows(new) > 0 THEN <<>>
    ELSE IF ~TableExists(old) THEN <<>>
    ELSE IF CountTableRows(old) = 0 THEN <<[op |-> "create", hasTagColumn |-> FALSE]>>
    ELSE <<[op |-> "create", hasTagColumn |-> FALSE],
           [op |-> "copy", hasTagColumn |-> old.hasTag]>>
CommandsToIssue(new, old, throws) ==
    LET newTableExists == Probe(throws, "newExists", TableExists(new), FALSE)
        newTableRows == Probe(throws, "newCount", CountTableRows(new), 0)
        oldTableExists == Probe(throws, "oldExists", TableExists(old), FALSE)
        oldTableRows == Probe(throws, "oldCount", CountTableRows(old), 0)
        hasTagColumn == Probe(throws, "tagColumn", old.hasTag, FALSE)
    IN  IF newTableExists /\ newTableRows > 0 THEN <<>>
        ELSE IF ~oldTableExists THEN <<>>
        ELSE IF oldTableRows = 0 THEN <<>>
        ELSE <<[op |-> "create", hasTagColumn |-> FALSE],
               [op |-> "copy", hasTagColumn |-> hasTagColumn]>>

\* Step 4: the commands run in order; the first that throws ends the call,
\* the catch block rethrows.
RECURSIVE Issue(_, _, _, _)
RECURSIVE Issue_Swallowing(_, _, _, _)
Issue_Swallowing(db, cmds, throws, issued) ==
    IF cmds = <<>> THEN [db |-> db, issued |-> issued, outcome |-> "returned"]
    ELSE IF cmds[1].op \in throws
         THEN [db |-> db, issued |-> Append(issued, cmds[1]), outcome |-> "returned"]
         ELSE Issue_Swallowing(Execute(db, cmds[1]), Tail(cmds), throws, Append(issued, cmds[1]))
Issue(db, cmds, throws, issued) ==
    IF cmds = <<>> THEN [db |-> db, issued |-> issued, outcome |-> "returned"]
    ELSE IF cmds[1].op \in throws
         THEN [db |-> db, issued |-> Append(issued, cmds[1]), outcome |-> "threw"]
         ELSE Issue(Execute(db, cmds[1]), Tail(cmds), throws, Append(issued, cmds[1]))

\* migrateOldMigrationTable(executor, dialect, config) when the calls of
\* throws throw: the tables afterwards, the commands sent, the outcome.
MigrateOldMigrationTable(new, old, throws) ==
    Issue(Db(new, old), CommandsToIssue(new, old, throws), throws, <<>>)

\* ----------------------------------------------------------------- migrate
\* SELECT id, hash, created_at FROM ledger ORDER BY created_at DESC LIMIT 1;
\* dbMigrations[0] ?? undefined
LastDbMigration_Oldest(rows) ==
    IF rows = <<>> THEN NoRow
    ELSE rows[CHOOSE i \in DOMAIN rows :
                  \A j \in DOMAIN rows : rows[i].created_at <= rows[j].created_at]
LastDbMigration(rows) ==
    IF rows = <<>> THEN NoRow
    ELSE rows[CHOOSE i \in DOMAIN rows :
                  \A j \in DOMAIN rows : rows[j].created_at <= rows[i].created_at]

\* !lastDbMigration || Number(lastDbMigration[2]) < migration.folderMillis
ShouldRun_NonStrict(last, migration) ==
    last = NoRow \/ last.created_at <= migration.folderMillis
ShouldRun(last, migration) ==
    last = NoRow \/ last.created_at < migration.folderMillis

Query(kind, m, k) == [kind |-> kind, tag |-> m.tag, k |-> k, hash |-> m.hash,
                      folderMillis |-> m.folderMillis]
\* What one selected migration adds to the batch: its statements, then the
\* INSERT of its ledger row.
QueriesOf_InsertFirst(m) ==
    <<Query("insert", m, 0)>> \o [k \in 1 .. Len(m.sql) |-> Query("stmt", m, k)]
QueriesOf(m) == [k \in 1 .. Len(m.sql) |-> Query("stmt", m, k)] \o <<Query("insert", m, 0)>>

RECURSIVE QueriesToRun(_, _)
RECURSIVE QueriesToRun_All(_, _)
QueriesToRun_All(last, migrations) ==
    IF migrations = <<>> THEN <<>>
    ELSE QueriesOf(migrations[1])
             \o QueriesToRun_All(last, SubSeq(migrations, 2, Len(migrations)))
QueriesToRun(last, migrations) ==
    IF migrations = <<>> THEN <<>>
    ELSE (IF ShouldRun(last, migrations[1]) THEN QueriesOf(migrations[1]) ELSE <<>>)
             \o QueriesToRun(last, SubSeq(migrations, 2, Len(migrations)))

Runners == {1, 2}
NoTable == [exists |-> FALSE, rows |-> <<>>]
NoOldTable == [exists |-> FALSE, hasTag |-> FALSE, rows |-> <<>>]

\* The drivers whose apply phase is modelled: sqlite-proxy hands the queries
\* to a callback that runs them one by one, durable-sqlite runs them inside
\* db.transaction.  (durable-sqlite reads its units from a bundled journal;
\* only what follows the reading is modelled for it.)
Drivers == {"sqlite-proxy", "durable-sqlite"}
Transactional(driver) == driver = "durable-sqlite"

\* What a transaction would roll back to.
Saved(ledger, stmts) == [ledger |-> ledger, applied |-> stmts]

\* The locals of one migrate call.  before, txBegin and steps are history:
\* the tables when the call started and when its transaction began, and the
\* steps before the batch that have completed, in order.
IdleRun == [pc |-> "idle", no |-> 0, migrations |-> <<>>, last |-> NoRow,
            queue |-> <<>>, executed |-> 0, maxAtRead |-> -1,
            driver |-> "sqlite-proxy", status |-> "none", throws |-> {}, faults |-> 0,
            issued |-> <<>>, steps |-> <<>>, before |-> Db(NoTable, NoOldTable),
            txBegin |-> Saved(NoTable, <<>>)]

\* ----------------------------------------------------------------- actions
\* Before any of the tools has been called.
NoDrop == [no |-> 0, status |-> "none", dir |-> {}, bundle |-> FALSE]
NoBundle == [written |-> FALSE, tags |-> <<>>]
NoRead == [outcome |-> "none", metas |-> <<>>]
File(bytes) == [exists |-> TRUE, bytes |-> bytes]
NoFile == [exists |-> FALSE, bytes |-> <<>>]
NoLegacy == [exists |-> FALSE, meta |-> FALSE, journal |-> "missing", entries |-> <<>>]
NoConv ==
    [no |-> 0, dryRun |-> FALSE, outcome |-> "none", migratedCount |-> 0, skippedCount |-> 0,
     written |-> <<>>, chain |-> Threw("none"), exists |-> FALSE, dir |-> {}, legacy |-> NoLegacy]
\* The values of JavaScript a configuration can be: undefined, null, a
\* falsy JSON value (false, 0, ""), or an object.
Undefined == "undefined"
JsNull == "null"
Falsy == "false"
ConfigObjects == {"A", "B"}
NoCalls == [calls |-> 0, reads |-> 0, first |-> Undefined, last |-> Undefined]
NoLedgerRun ==
    [pc |-> "idle", driver |-> "none", migrationsTable |-> Undefined, legacy |-> FALSE,
     pending |-> 0, created |-> {}, rows |-> {}]
ConfigIdle ==
    /\ configFile = "absent"
    /\ cachedLegacyConfig = JsNull
    /\ cfg = NoCalls
ToolsIdle ==
    /\ read = NoRead
    /\ legacy = NoLegacy
    /\ conv = NoConv
    /\ ConfigIdle

\* A migration folder is authored (by the generator, which names it after
\* the current time, or by hand) before the directory is read.
AddFolder ==
    /\ dirExists
    /\ outcome = "none"
    /\ dropped = NoFolder
    /\ dropCall = NoDrop
    /\ Cardinality(dir) < MaxFolders
    /\ \E t \in Tags, c \in FolderContents :
         /\ \A f \in dir : f.tag < t
         /\ dir' = dir \cup {Folder(t, c[1], c[2], c[3], 1)}
    /\ UNCHANGED <<dirExists, outcome, orderedTags, dropped, dropCall, bundleFile>>
    /\ UNCHANGED <<dbVars, runVars, ledgerRun, toolVars>>

\* A caller reads the chain: buildSnapshotChain(migrationsFolder).
BuildChain ==
    /\ \E r \in ChainResults(dirExists, dir) :
         /\ outcome' = r.outcome
         /\ orderedTags' = r.tags
    /\ UNCHANGED <<dirExists, dir, dropped, dropCall, bundleFile>>
    /\ UNCHANGED <<dbVars, runVars, ledgerRun, toolVars>>

\* rmSync(join(out, selectedTag), { recursive: true })
RmSync_Sweeping(d, f) == {g \in d : g.tag < f.tag}
RmSync(d, f) == d \ {f}

\* How a dropMigration call ended, and the folders it found.
DropCall(status, bundle) ==
    [no |-> dropCall.no + 1, status |-> status, dir |-> dir, bundle |-> bundle]

\* embeddedMigrations(out): one import per tag of buildSnapshotChain(out), in
\* its order; it throws when buildSnapshotChain does.
EmbeddedMigrations(exists, ls) == BuildSnapshotChain(exists, ls)

\* The folders on disk when embeddedMigrations(out) runs in dropMigration:
\* it is called after rmSync has returned.
BundledDir_Before(d, f) == d
BundledDir(d, f) == RmSync(d, f)

\* fs.writeFileSync(join(out, 'migrations.js'), embeddedMigrations(out))
WriteBundle(old, embedded) ==
    IF embedded.outcome = "returned" THEN [written |-> TRUE, tags |-> embedded.tags] ELSE old

DropMigration_KeepsFolder ==
    /\ dropCall.no < MaxDrops
    /\ \E r \in ChainResults(dirExists, dir) :
         \/ /\ r.outcome # "returned"
            /\ dropCall' = DropCall("threw", FALSE)
            /\ UNCHANGED <<dir, dropped, bundleFile>>
         \/ /\ r.outcome = "returned"
            /\ r.tags = <<>>
            /\ dropCall' = DropCall("empty", FALSE)
            /\ UNCHANGED <<dir, dropped, bundleFile>>
         \/ /\ r.outcome = "returned"
            /\ r.tags # <<>>
            /\ dropCall' = DropCall("aborted", FALSE)
            /\ UNCHANGED <<dir, dropped, bundleFile>>
         \/ /\ r.outcome = "returned"
            /\ r.tags # <<>>
            /\ \E f \in dir :
                 /\ f.tag \in Range(r.tags)
                 /\ dir' = dir
                 /\ dropped' = f
                 /\ \E bundle \in BOOLEAN :
                      /\ dropCall' = DropCall("deleted", bundle)
                      /\ IF bundle
                         THEN \E ls \in Listings(BundledDir(dir, f)) :
                                  bundleFile' = WriteBundle(bundleFile, EmbeddedMigrations(dirExists, ls))
                         ELSE bundleFile' = bundleFile
    /\ outcome' = "none"
    /\ orderedTags' = <<>>
    /\ UNCHANGED dirExists
    /\ UNCHANGED <<dbVars, runVars, ledgerRun, toolVars>>

\* dropMigration({out, bundle}): reads the chain, which can throw; returns
\* when it is empty; lets the user pick one of its entries or abort; removes
\* the folder picked; with bundle set, writes migrations.js.  The bundle
\* option is not looked at on the paths that return early.
DropMigration ==
    /\ dropCall.no < MaxDrops
    /\ \E r \in ChainResults(dirExists, dir) :
         \/ /\ r.outcome # "returned"
            /\ dropCall' = DropCall("threw", FALSE)
            /\ UNCHANGED <<dir, dropped, bundleFile>>
         \/ /\ r.outcome = "returned"
            /\ r.tags = <<>>
            /\ dropCall' = DropCall("empty", FALSE)
            /\ UNCHANGED <<dir, dropped, bundleFile>>
         \/ /\ r.outcome = "returned"
            /\ r.tags # <<>>
            /\ dropCall' = DropCall("aborted", FALSE)
            /\ UNCHANGED <<dir, dropped, bundleFile>>
         \/ /\ r.outcome = "returned"
            /\ r.tags # <<>>
            /\ \E f \in dir :
                 /\ f.tag \in Range(r.tags)
                 /\ dir' = RmSync(dir, f)
                 /\ dropped' = f
                 /\ \E bundle \in BOOLEAN :
                      /\ dropCall' = DropCall("deleted", bundle)
                      /\ IF bundle
                         THEN \E ls \in Listings(BundledDir(dir, f)) :
                                  bundleFile' = WriteBundle(bundleFile, EmbeddedMigrations(dirExists, ls))
                         ELSE bundleFile' = bundleFile
    /\ outcome' = "none"
    /\ orderedTags' = <<>>
    /\ UNCHANGED dirExists
    /\ UNCHANGED <<dbVars, runVars, ledgerRun, toolVars>>

ChainInit ==
    /\ dirExists \in BOOLEAN
    /\ dir = {}
    /\ outcome = "none"
    /\ orderedTags = <<>>
    /\ dropped = NoFolder
    /\ dropCall = NoDrop
    /\ bundleFile = NoBundle
    /\ newLedger = NoTable
    /\ oldLedger = NoOldTable
    /\ applied = <<>>
    /\ runs = [r \in Runners |-> IdleRun]
    /\ started = 0
    /\ log = <<>>
    /\ countAfter = <<>>
    /\ ledgerRun = NoLedgerRun
    /\ ToolsIdle

ChainNext == AddFolder \/ BuildChain \/ DropMigration

SpecChain == ChainInit /\ [][ChainNext]_vars

\* ------------------------------------------------ the target and the units
\* The largest created_at of the ledger, -1 for a ledger without rows.
MaxCreatedAt(rows) ==
    IF rows = <<>> THEN -1
    ELSE CHOOSE c \in {rows[i].created_at : i \in DOMAIN rows} :
             \A i \in DOMAIN rows : rows[i].created_at <= c

\* Directories of well-formed units: the folder <t>_... carries the id of
\* its own, its prevId is ROOT or the id of another folder name.
IdOf(t) == ToString(t)
UnitTags == 0 .. MaxTs
UnitDirsOver(T) ==
    {{Folder(t, "ok", IdOf(t), c[t][1], c[t][2]) : t \in T} :
        c \in [T -> ({ROOT} \cup {IdOf(u) : u \in UnitTags}) \X (1 .. MaxStmts)]}
UnitDirs ==
    {d \in UNION {UnitDirsOver(T) : T \in {S \in SUBSET UnitTags : Cardinality(S) <= MaxFolders}} :
        \A f \in d : f.prevId # f.id}

\* A ledger as an earlier history left it: no table, an empty table, or one
\* row of some earlier application.
NewLedgers ==
    {NoTable, [exists |-> TRUE, rows |-> <<>>]}
        \cup {[exists |-> TRUE, rows |-> <<Row(<<"other">>, c, "other")>>] : c \in UnitTags}
LegacyRow(c, hasTag) == Row(<<"legacy", c>>, c, IF hasTag THEN "legacy" ELSE NULL)
OldLedgers ==
    {NoOldTable, [exists |-> TRUE, hasTag |-> TRUE, rows |-> <<>>]}
        \cup {[exists |-> TRUE, hasTag |-> h, rows |-> <<LegacyRow(c, h)>>] :
                c \in UnitTags, h \in BOOLEAN}
        \cup {[exists |-> TRUE, hasTag |-> h, rows |-> <<LegacyRow(0, h), LegacyRow(MaxTs, h)>>] :
                h \in BOOLEAN}

\* ------------------------------------------------------- actions of migrate
\* Two calls interleave where a call awaits the database.  The callback of
\* db.transaction in durable-sqlite is synchronous: from its CREATE TABLE to
\* its last statement no other call runs.
InTransaction(run) == Transactional(run.driver) /\ run.pc \in {"read", "apply"}
CanStep(r) == \A o \in Runners \ {r} : ~InTransaction(runs[o])

\* migrate(db, config) is called: readMigrationFiles(config).  When it
\* throws, the call ends there.
StartRun(r) ==
    /\ runs[r].pc = "idle"
    /\ CanStep(r)
    /\ started < MaxRuns
    /\ started' = started + 1
    /\ \E res \in ReadResults(dirExists, dir), driver \in Drivers :
         runs' = [runs EXCEPT ![r] =
                     IF res.outcome = "returned"
                     THEN [IdleRun EXCEPT !.pc = "reconcile", !.no = started + 1,
                                          !.migrations = res.metas,
                                          !.driver = driver, !.status = "running",
                                          !.faults = runs[r].faults,
                                          !.before = Db(newLedger, oldLedger),
                                          !.txBegin = Saved(newLedger, applied)]
                     ELSE [IdleRun EXCEPT !.pc = "idle", !.no = started + 1,
                                          !.driver = driver, !.status = "threw",
                                          !.faults = runs[r].faults,
                                          !.before = Db(newLedger, oldLedger),
                                          !.txBegin = Saved(newLedger, applied)]]
    /\ UNCHANGED <<ledgerRun, toolVars, chainVars, dbVars, log, countAfter>>

\* await migrateOldMigrationTable(executor, 'sqlite', {newTable, oldTable})
\* with the calls of throws throwing.  The driver does not catch: when the
\* call throws, migrate ends there.
ReconcileUnder(r, throws) ==
    /\ runs[r].pc = "reconcile"
    /\ CanStep(r)
    /\ \E res \in {MigrateOldMigrationTable(newLedger, oldLedger, throws)} :
         /\ newLedger' = res.db.new
         /\ oldLedger' = res.db.old
         /\ runs' = [runs EXCEPT ![r].pc = IF res.outcome = "returned" THEN "create" ELSE "idle",
                                 ![r].status = IF res.outcome = "returned" THEN @ ELSE "threw",
                                 ![r].throws = throws,
                                 ![r].faults = @ + Cardinality(throws),
                                 ![r].issued = res.issued,
                                 ![r].steps = IF res.outcome = "returned"
                                              THEN Append(@, "reconcile") ELSE @]
    /\ UNCHANGED <<ledgerRun, toolVars, chainVars, applied, started, log, countAfter>>

\* The reconciliation with every call answering.
Reconcile(r) ==
    /\ runs[r].pc = "reconcile"
    /\ ReconcileUnder(r, {})

\* The reconciliation with one of its calls throwing.
ReconcileFaulty(r) ==
    /\ runs[r].pc = "reconcile"
    /\ runs[r].faults < MaxFaults
    /\ \E call \in Calls : ReconcileUnder(r, {call})

\* await session.run(CREATE TABLE IF NOT EXISTS ...); in durable-sqlite it
\* is the first call inside db.transaction.
CreateTable(r) ==
    /\ runs[r].pc = "create"
    /\ CanStep(r)
    /\ newLedger' = [newLedger EXCEPT !.exists = TRUE]
    /\ runs' = [runs EXCEPT ![r].pc = "read",
                            ![r].steps = Append(@, "create"),
                            ![r].txBegin = Saved(newLedger, applied)]
    /\ UNCHANGED <<ledgerRun, toolVars, chainVars, oldLedger, applied, started, log, countAfter>>

\* The ledger the SELECT of the mark sees: the table as it is when the
\* statement runs, after the reconciliation and the CREATE TABLE.
LedgerAtRead_AtStart(run, current) == run.before.new
LedgerAtRead(run, current) == current

\* await db.values(SELECT ... ORDER BY created_at DESC LIMIT 1), then the
\* loop that fills the batch.
ReadMark(r) ==
    /\ runs[r].pc = "read"
    /\ CanStep(r)
    /\ \E ledger \in {LedgerAtRead(runs[r], newLedger)} :
         \E last \in {LastDbMigration(ledger.rows)} :
           runs' = [runs EXCEPT ![r].pc = "apply",
                                ![r].steps = Append(@, "read"),
                                ![r].last = last,
                                ![r].queue = QueriesToRun(last, runs[r].migrations),
                                ![r].executed = 0,
                                ![r].maxAtRead = MaxCreatedAt(ledger.rows)]
    /\ UNCHANGED <<ledgerRun, toolVars, chainVars, dbVars, started, log, countAfter>>

Executed(r, q) ==
    [run |-> runs[r].no, runner |-> r, kind |-> q.kind, tag |-> q.tag, k |-> q.k,
     folderMillis |-> q.folderMillis, hash |-> q.hash,
     maxBefore |-> MaxCreatedAt(newLedger.rows), maxAtRead |-> runs[r].maxAtRead]

\* The next entry of the batch is executed: a statement of a unit.
ExecStatement(r) ==
    /\ runs[r].pc = "apply"
    /\ CanStep(r)
    /\ runs[r].queue # <<>>
    /\ runs[r].queue[1].kind = "stmt"
    /\ log' = Append(log, Executed(r, runs[r].queue[1]))
    /\ applied' = Append(applied, <<runs[r].queue[1].tag, runs[r].queue[1].k>>)
    /\ runs' = [runs EXCEPT ![r].queue = Tail(runs[r].queue),
                            ![r].executed = runs[r].executed + 1]
    /\ UNCHANGED <<ledgerRun, toolVars, chainVars, newLedger, oldLedger, started, countAfter>>

\* INSERT INTO ledger ("hash", "created_at", "tag") VALUES (...)
InsertInto_Replacing(rows, row) == <<row>>
InsertInto(rows, row) == Append(rows, row)

\* The next entry of the batch is executed: the INSERT of a ledger row with
\* the unit's hash, folderMillis and tag.
InsertRow(r) ==
    /\ runs[r].pc = "apply"
    /\ CanStep(r)
    /\ runs[r].queue # <<>>
    /\ runs[r].queue[1].kind = "insert"
    /\ \E q \in {runs[r].queue[1]} :
         /\ newLedger' = [newLedger EXCEPT
                             !.rows = InsertInto(@, Row(q.hash, q.folderMillis, ToString(q.tag)))]
         /\ log' = Append(log, Executed(r, q))
    /\ runs' = [runs EXCEPT ![r].queue = Tail(runs[r].queue),
                            ![r].executed = runs[r].executed + 1]
    /\ UNCHANGED <<ledgerRun, toolVars, chainVars, oldLedger, applied, started, countAfter>>

\* The batch is through: migrate returns.
FinishRun(r) ==
    /\ runs[r].pc = "apply"
    /\ CanStep(r)
    /\ runs[r].queue = <<>>
    /\ runs' = [runs EXCEPT ![r].pc = "idle", ![r].status = "returned"]
    /\ countAfter' = Append(countAfter, Len(newLedger.rows))
    /\ UNCHANGED <<ledgerRun, toolVars, chainVars, dbVars, started, log>>

\* catch (error) { tx.rollback(); throw error }: what is left of the ledger
\* and of the applied statements when an entry of the batch has failed.
AfterFailure_NoRollback(run, current) == current
AfterFailure(run, current) ==
    IF Transactional(run.driver) THEN run.txBegin ELSE current

\* The call after the failure: the error leaves the loop and migrate.
Abort(run) == [run EXCEPT !.pc = "idle", !.status = "threw", !.faults = @ + 1]

\* The next entry of the batch throws.
FailQuery(r) ==
    /\ runs[r].pc = "apply"
    /\ CanStep(r)
    /\ runs[r].faults < MaxFaults
    /\ runs[r].queue # <<>>
    /\ log' = Append(log, [Executed(r, runs[r].queue[1]) EXCEPT !.kind = "failed"])
    /\ \E left \in {AfterFailure(runs[r], Saved(newLedger, applied))} :
         /\ newLedger' = left.ledger
         /\ applied' = left.applied
    /\ runs' = [runs EXCEPT ![r] = Abort(runs[r])]
    /\ UNCHANGED <<ledgerRun, toolVars, chainVars, oldLedger, started, countAfter>>

Init ==
    /\ dirExists = TRUE
    /\ dir \in UnitDirs
    /\ outcome = "none"
    /\ orderedTags = <<>>
    /\ dropped = NoFolder
    /\ dropCall = NoDrop
    /\ bundleFile = NoBundle
    /\ newLedger \in NewLedgers
    /\ oldLedger \in OldLedgers
    /\ applied = <<>>
    /\ runs = [r \in Runners |-> IdleRun]
    /\ started = 0
    /\ log = <<>>
    /\ countAfter = <<>>
    /\ ledgerRun = NoLedgerRun
    /\ ToolsIdle

\* One runner at a time: runner 1 makes every call.
Next ==
    \/ StartRun(1)
    \/ Reconcile(1)
    \/ CreateTable(1)
    \/ ReadMark(1)
    \/ ExecStatement(1)
    \/ InsertRow(1)
    \/ FinishRun(1)

Spec == Init /\ [][Next]_vars

\* The directories all of whose units are in the chain, each of them with
\* a script of MaxStmts statements.
FaultDirs ==
    {d \in UnitDirs :
        /\ \A f \in d : f.sql = MaxStmts
        /\ \A r \in ChainResults(TRUE, d) : Range(r.tags) = {f.tag : f \in d}}

InitFaults ==
    /\ dirExists = TRUE
    /\ dir \in FaultDirs
    /\ outcome = "none"
    /\ orderedTags = <<>>
    /\ dropped = NoFolder
    /\ dropCall = NoDrop
    /\ bundleFile = NoBundle
    /\ newLedger \in NewLedgers
    /\ oldLedger \in OldLedgers
    /\ applied = <<>>
    /\ runs = [r \in Runners |-> IdleRun]
    /\ started = 0
    /\ log = <<>>
    /\ countAfter = <<>>
    /\ ledgerRun = NoLedgerRun
    /\ ToolsIdle

\* The same runner against a database whose calls can throw.
NextFaults ==
    \/ Next
    \/ ReconcileFaulty(1)
    \/ FailQuery(1)

SpecFaults == InitFaults /\ [][NextFaults]_vars

\* Two runners against the same target: each step of a call is one await,
\* and the calls interleave between the steps.
TwoDirs ==
    {d \in UnitDirs :
        /\ Cardinality(d) <= 2
        /\ \A f \in d : f.sql = 1
        /\ \A r \in ChainResults(TRUE, d) : Range(r.tags) = {f.tag : f \in d}}

InitTwo ==
    /\ dirExists = TRUE
    /\ dir \in TwoDirs
    /\ outcome = "none"
    /\ orderedTags = <<>>
    /\ dropped = NoFolder
    /\ dropCall = NoDrop
    /\ bundleFile = NoBundle
    /\ newLedger \in NewLedgers
    /\ oldLedger = NoOldTable
    /\ applied = <<>>
    /\ runs = [r \in Runners |-> IdleRun]
    /\ started = 0
    /\ log = <<>>
    /\ countAfter = <<>>
    /\ ledgerRun = NoLedgerRun
    /\ ToolsIdle

\* Each of the two runners makes one call.
StartOnce(r) ==
    /\ runs[r].no = 0
    /\ StartRun(r)

NextTwo ==
    \E r \in Runners :
        \/ StartOnce(r)
        \/ Reconcile(r)
        \/ CreateTable(r)
        \/ ReadMark(r)
        \/ ExecStatement(r)
        \/ InsertRow(r)
        \/ FinishRun(r)

SpecTwo == InitTwo /\ [][NextTwo]_vars

\* ------------------------------------- readMigrationFiles called on its own
\* What a migrations folder can hold when it is read: a snapshot.json that
\* is missing, unparsable or well-formed, and an up.sql that is missing (-1),
\* empty (0) or of one statement.
ReadContents ==
    {<<"none", EMPTY, EMPTY>>, <<"bad", EMPTY, EMPTY>>}
        \cup {<<"ok", i, p>> : i \in {"a", "b"}, p \in {ROOT, "a"}}
ScriptSizes == {-1, 0, 1}

\* A folder is written into the migrations directory, by whatever means.
WriteFolder ==
    /\ dirExists
    /\ read = NoRead
    /\ Cardinality(dir) < MaxFolders
    /\ \E t \in Tags, c \in ReadContents, q \in ScriptSizes :
         /\ \A f \in dir : f.tag < t
         /\ dir' = dir \cup {Folder(t, c[1], c[2], c[3], q)}
    /\ UNCHANGED <<dirExists, outcome, orderedTags, dropped, dropCall, bundleFile>>
    /\ UNCHANGED <<dbVars, runVars, ledgerRun, toolVars>>

\* readMigrationFiles({ migrationsFolder }) is called, as the tests call it.
ReadFiles ==
    /\ \E res \in ReadResults(dirExists, dir) : read' = res
    /\ UNCHANGED <<legacy, conv>>
    /\ UNCHANGED <<chainVars, dbVars, runVars, ledgerRun, configVars>>

ReadNext == WriteFolder \/ ReadFiles

SpecRead == ChainInit /\ [][ReadNext]_vars

\* ------------------------------------------------------ generateFromJournal
\* The content of a file, byte by byte: "s" is the text of a statement, "m"
\* the marker --> statement-breakpoint, "x" a byte that is no valid UTF-8,
\* "r" the three bytes EF BF BD.  Of a string, character by character: "s",
\* "m" and "fffd", the replacement character.
Bytes == {"s", "m", "x", "r"}
\* readFileSync(path, 'utf8') and Buffer.toString(): an invalid byte decodes
\* to U+FFFD.
Decode(bytes) ==
    [i \in DOMAIN bytes |-> IF bytes[i] \in {"x", "r"} THEN "fffd" ELSE bytes[i]]
\* writeFileSync(path, string): the string encoded as UTF-8.
Encode(chars) ==
    [i \in DOMAIN chars |-> IF chars[i] = "fffd" THEN "r" ELSE chars[i]]
\* query.split('--> statement-breakpoint').map(trim).filter(Boolean).length
StatementCount(chars) ==
    Cardinality({i \in DOMAIN chars : chars[i] # "m" /\ (i = 1 \/ chars[i - 1] = "m")})
\* const query = fs.readFileSync(sqlPath).toString()
ReadScript(bytes) == Decode(bytes)

\* One entry of meta/_journal.json with the two files it names: `when`, the
\* state of meta/<prefix>_snapshot.json ("none", "bad" or "ok" with its id
\* and prevId) and the file <tag>.sql.  Entries with the same `when` carry
\* the same name, so `when` stands for the destination folder name.
Entry(w, s, i, p, q) == [when |-> w, snap |-> s, id |-> i, prevId |-> p, sql |-> q]
LegacyScripts == {<<"s">>, <<"s", "m", "s">>, <<"x">>}
Entries ==
    {Entry(w, c[1], c[2], c[3], q) :
        w \in 0 .. MaxTs,
        c \in {<<"none", EMPTY, EMPTY>>, <<"bad", EMPTY, EMPTY>>,
                <<"ok", "a", ROOT>>, <<"ok", "b", "a">>},
        q \in {NoFile} \cup {File(b) : b \in LegacyScripts}}
Journals == UNION {[1 .. n -> Entries] : n \in 0 .. MaxEntries}
\* The source directories: missing, without meta, without or with a broken
\* index, with an index that parses but has no entries array, or with an
\* index of up to MaxEntries entries.
LegacyDirs ==
    {NoLegacy, [NoLegacy EXCEPT !.exists = TRUE]}
        \cup {[exists |-> TRUE, meta |-> TRUE, journal |-> j, entries |-> <<>>] :
                j \in {"missing", "malformed", "noEntries"}}
        \cup {[exists |-> TRUE, meta |-> TRUE, journal |-> "ok", entries |-> es] : es \in Journals}

\* validateJournalStructure(folder): "invalid", "threw" (journal.entries is
\* not iterable) or "valid".
ValidateJournalStructure_Lenient(L) ==
    IF ~L.exists \/ ~L.meta \/ L.journal \in {"missing", "malformed"} THEN "invalid"
    ELSE IF L.journal = "noEntries" THEN "threw"
    ELSE "valid"
ValidateJournalStructure(L) ==
    IF ~L.exists \/ ~L.meta \/ L.journal \in {"missing", "malformed"} THEN "invalid"
    ELSE IF L.journal = "noEntries" THEN "threw"
    ELSE IF \E k \in DOMAIN L.entries : L.entries[k].snap = "none" \/ ~L.entries[k].sql.exists
         THEN "invalid"
    ELSE "valid"

\* existsSync(out) ? new Set(buildSnapshotChain(out)) : new Set()
ExistingMigrations_None(exists, chain) == {}
ExistingMigrations(exists, chain) == IF exists THEN Range(chain.tags) ELSE {}

\* if (dryRun) { log } else { mkdirSync; writeFileSync ... }
Writes_Always(dryRun) == TRUE
Writes(dryRun) == ~dryRun

\* The source after readFileSync(snapshotPath) and readFileSync(sqlPath) of
\* its k-th entry: reading leaves the files where they are.
SourceAfterRead_Moved(L, k) ==
    [L EXCEPT !.entries[k].snap = "none", !.entries[k].sql = NoFile]
SourceAfterRead(L, k) == L

\* The folder generateFromJournal writes for an entry: snapshot.json and
\* up.sql hold what was read as a string, written back as UTF-8.
NewFolder(e) ==
    [tag |-> e.when, snap |-> e.snap, id |-> e.id, prevId |-> e.prevId,
     sql |-> StatementCount(Decode(e.sql.bytes)),
     script |-> Encode(Decode(e.sql.bytes))]

\* One round of the loop over journal.entries.
ProcessEntry(st, k, existing, dryRun) ==
    LET e == st.legacy.entries[k]
        after == SourceAfterRead(st.legacy, k)
        made == [st EXCEPT !.legacy = after,
                           !.exists = TRUE,
                           !.dir = {f \in st.dir : f.tag # e.when} \cup {NewFolder(e)},
                           !.written = Append(st.written, e.when)]
    IN  IF e.when \in existing THEN [st EXCEPT !.skippedCount = @ + 1]
        ELSE IF e.snap = "none" \/ ~e.sql.exists THEN [st EXCEPT !.outcome = "threw"]
        ELSE IF ~Writes(dryRun) THEN [st EXCEPT !.legacy = after, !.migratedCount = @ + 1]
        ELSE IF e.snap = "bad" THEN [made EXCEPT !.outcome = "threw"]
        ELSE [made EXCEPT !.migratedCount = @ + 1]

RECURSIVE ProcessEntries(_, _, _, _)
ProcessEntries(st, k, existing, dryRun) ==
    IF k > Len(st.legacy.entries) THEN [st EXCEPT !.outcome = "returned"]
    ELSE LET next == ProcessEntry(st, k, existing, dryRun)
         IN  IF next.outcome = "threw" THEN next
             ELSE ProcessEntries(next, k + 1, existing, dryRun)

\* generateFromJournal({ source, out, dryRun }) with the destination listed
\* in the order ls: the outcome ("exit" for process.exit(1)), the two
\* directories afterwards, the counts and the folders written.
GenerateFromJournal(L, exists, d, ls, dryRun) ==
    LET start == [outcome |-> "running", exists |-> exists, dir |-> d, legacy |-> L,
                  migratedCount |-> 0, skippedCount |-> 0, written |-> <<>>,
                  chain |-> Threw("none")]
        validation == ValidateJournalStructure(L)
        chain == IF exists THEN BuildSnapshotChain(exists, ls) ELSE Returned(<<>>)
    IN  IF validation = "invalid" THEN [start EXCEPT !.outcome = "exit"]
        ELSE IF validation = "threw" THEN [start EXCEPT !.outcome = "threw"]
        ELSE IF chain.outcome # "returned" THEN [start EXCEPT !.outcome = "threw", !.chain = chain]
        ELSE ProcessEntries([start EXCEPT !.chain = chain], 1,
                            ExistingMigrations(exists, chain), dryRun)

\* generateFromJournal is called, as a dry run or not.
Generate ==
    /\ conv.no < MaxConversions
    /\ read = NoRead
    /\ \E dryRun \in BOOLEAN, ls \in Listings(dir) :
         LET res == GenerateFromJournal(legacy, dirExists, dir, ls, dryRun)
         IN  /\ dirExists' = res.exists
             /\ dir' = res.dir
             /\ legacy' = res.legacy
             /\ conv' = [no |-> conv.no + 1, dryRun |-> dryRun, outcome |-> res.outcome,
                         migratedCount |-> res.migratedCount,
                         skippedCount |-> res.skippedCount,
                         written |-> res.written, chain |-> res.chain,
                         exists |-> dirExists, dir |-> dir, legacy |-> legacy]
    /\ UNCHANGED <<outcome, orderedTags, dropped, dropCall, bundleFile, read>>
    /\ UNCHANGED <<dbVars, runVars, ledgerRun, configVars>>

\* readMigrationFiles is called on the destination of a conversion.
ReadConverted ==
    /\ conv.outcome # "none"
    /\ \E res \in ReadResults(dirExists, dir) : read' = res
    /\ UNCHANGED <<legacy, conv>>
    /\ UNCHANGED <<chainVars, dbVars, runVars, ledgerRun, configVars>>

JournalInit ==
    /\ dirExists \in BOOLEAN
    /\ dir = {}
    /\ outcome = "none"
    /\ orderedTags = <<>>
    /\ dropped = NoFolder
    /\ dropCall = NoDrop
    /\ bundleFile = NoBundle
    /\ newLedger = NoTable
    /\ oldLedger = NoOldTable
    /\ applied = <<>>
    /\ runs = [r \in Runners |-> IdleRun]
    /\ started = 0
    /\ log = <<>>
    /\ countAfter = <<>>
    /\ ledgerRun = NoLedgerRun
    /\ read = NoRead
    /\ legacy \in LegacyDirs
    /\ conv = NoConv
    /\ ConfigIdle

JournalNext == Generate \/ ReadConverted

SpecJournal == JournalInit /\ [][JournalNext]_vars

\* -------------------------------------------------- readLegacyDrizzleConfig
\* drizzle.config.* on disk: absent, a .json file that does not parse, or a
\* .json file that parses to an object, to null or to a falsy value.  (A .js
\* or .ts file that loads gives an object; one that does not load and does
\* not match the patterns counts as "garbage".)
ConfigFiles == {"absent", "garbage", JsNull, Falsy} \cup ConfigObjects

\* The lookup and the parse of lines 327-389: the value that is stored in
\* cachedLegacyConfig and returned.
ParsedConfig(file) == IF file \in {"absent", "garbage"} THEN Undefined ELSE file

\* if (cachedLegacyConfig !== null) return cachedLegacyConfig || undefined
CacheHit(cache) == cache # JsNull
CachedValue(cache) == IF cache \in {Undefined, Falsy} THEN Undefined ELSE cache

\* readLegacyDrizzleConfig(): the value returned, the cache afterwards and
\* whether the filesystem was read.
ReadLegacyDrizzleConfig(cache, file) ==
    IF CacheHit(cache)
    THEN [value |-> CachedValue(cache), cache |-> cache, reads |-> 0]
    ELSE [value |-> ParsedConfig(file), cache |-> ParsedConfig(file), reads |-> 1]

\* A driver, or a test, calls readLegacyDrizzleConfig().
CallReadLegacyDrizzleConfig ==
    /\ cfg.calls < MaxCalls
    /\ \E res \in {ReadLegacyDrizzleConfig(cachedLegacyConfig, configFile)} :
         /\ cachedLegacyConfig' = res.cache
         /\ cfg' = [calls |-> cfg.calls + 1,
                    reads |-> cfg.reads + res.reads,
                    first |-> IF cfg.calls = 0 THEN res.value ELSE cfg.first,
                    last |-> res.value]
    /\ UNCHANGED configFile
    /\ UNCHANGED <<chainVars, dbVars, runVars, ledgerRun, read, legacy, conv>>

\* resetLegacyConfigCache(): the cache is as at module load.
ResetLegacyConfigCache ==
    /\ cfg.calls > 0
    /\ cachedLegacyConfig' = JsNull
    /\ cfg' = NoCalls
    /\ UNCHANGED configFile
    /\ UNCHANGED <<chainVars, dbVars, runVars, ledgerRun, read, legacy, conv>>

\* The configuration file is created, changed or deleted.
ChangeConfigFile ==
    /\ \E file \in ConfigFiles \ {configFile} : configFile' = file
    /\ UNCHANGED <<cachedLegacyConfig, cfg>>
    /\ UNCHANGED <<chainVars, dbVars, runVars, ledgerRun, read, legacy, conv>>

ConfigInit ==
    /\ dirExists = TRUE
    /\ dir = {}
    /\ outcome = "none"
    /\ orderedTags = <<>>
    /\ dropped = NoFolder
    /\ dropCall = NoDrop
    /\ bundleFile = NoBundle
    /\ newLedger = NoTable
    /\ oldLedger = NoOldTable
    /\ applied = <<>>
    /\ runs = [r \in Runners |-> IdleRun]
    /\ started = 0
    /\ log = <<>>
    /\ countAfter = <<>>
    /\ ledgerRun = NoLedgerRun
    /\ read = NoRead
    /\ legacy = NoLegacy
    /\ conv = NoConv
    /\ configFile \in ConfigFiles
    /\ cachedLegacyConfig = JsNull
    /\ cfg = NoCalls

ConfigNext == CallReadLegacyDrizzleConfig \/ ResetLegacyConfigCache \/ ChangeConfigFile

SpecConfig == ConfigInit /\ [][ConfigNext]_vars

\* ------------------------------------------------ the ledger's table name
\* The drivers whose migrate creates the ledger table and inserts into it
\* with statements of their own.
LedgerDrivers == {"d1", "libsql", "sqlite-proxy", "durable-sqlite", "pg-proxy"}
ReconcilingDrivers == {"d1", "sqlite-proxy", "durable-sqlite"}
CustomTable == "custom_migrations"
WizzleTable == "__wizzle_migrations"
DrizzleTable == "__drizzle_migrations"

\* config.migrationsTable as a caller can give it: the config of
\* durable-sqlite (journal, migrations) has no such field.
MigrationsTables(driver) ==
    IF driver = "durable-sqlite" THEN {Undefined} ELSE {Undefined, CustomTable}

\* const migrationsTable = ... of each driver: the table its CREATE TABLE,
\* its SELECT and its INSERT name.  pg-proxy names "wizzle"."__wizzle_migrations"
\* in all three.
LedgerTable(driver, migrationsTable) ==
    CASE driver \in {"d1", "sqlite-proxy"} ->
             IF migrationsTable = Undefined THEN WizzleTable ELSE migrationsTable
      [] driver = "libsql" ->
             IF migrationsTable = Undefined THEN DrizzleTable ELSE migrationsTable
      [] driver \in {"durable-sqlite", "pg-proxy"} -> WizzleTable

\* migrate(db, config) is called with pending units to apply, against a
\* target whose legacy ledger is populated or not and that has no new ledger.
StartLedgerRun ==
    /\ ledgerRun.pc = "idle"
    /\ \E driver \in LedgerDrivers, pending \in 0..MaxApplied, old \in BOOLEAN :
         \E t \in MigrationsTables(driver) :
           ledgerRun' = [pc |-> IF driver \in ReconcilingDrivers THEN "reconcile" ELSE "create",
                         driver |-> driver, migrationsTable |-> t, legacy |-> old,
                         pending |-> pending, created |-> {}, rows |-> {}]
    /\ UNCHANGED <<chainVars, dbVars, runVars, toolVars>>

\* migrateOldMigrationTable(executor, 'sqlite', {newTable: migrationsTable,
\* oldTable}): with a populated legacy ledger it creates newTable and copies
\* the rows into it; the legacy table is read only.
ReconcileLedger ==
    /\ ledgerRun.pc = "reconcile"
    /\ \E t \in {LedgerTable(ledgerRun.driver, ledgerRun.migrationsTable)} :
         ledgerRun' = [ledgerRun EXCEPT
                          !.pc = "create",
                          !.created = IF ledgerRun.legacy THEN @ \cup {t} ELSE @,
                          !.rows = IF ledgerRun.legacy THEN @ \cup {<<t, 0>>} ELSE @]
    /\ UNCHANGED <<chainVars, dbVars, runVars, toolVars>>

\* CREATE TABLE IF NOT EXISTS <migrationsTable>
CreateLedger ==
    /\ ledgerRun.pc = "create"
    /\ ledgerRun' = [ledgerRun EXCEPT
                        !.pc = "insert",
                        !.created = @ \cup {LedgerTable(ledgerRun.driver, ledgerRun.migrationsTable)}]
    /\ UNCHANGED <<chainVars, dbVars, runVars, toolVars>>

\* INSERT INTO <migrationsTable> for the next unit applied.
InsertApplied ==
    /\ ledgerRun.pc = "insert"
    /\ ledgerRun.pending > 0
    /\ ledgerRun' = [ledgerRun EXCEPT
                        !.pending = @ - 1,
                        !.rows = @ \cup {<<LedgerTable(ledgerRun.driver, ledgerRun.migrationsTable),
                                           ledgerRun.pending>>}]
    /\ UNCHANGED <<chainVars, dbVars, runVars, toolVars>>

FinishLedgerRun ==
    /\ ledgerRun.pc = "insert"
    /\ ledgerRun.pending = 0
    /\ ledgerRun' = [ledgerRun EXCEPT !.pc = "done"]
    /\ UNCHANGED <<chainVars, dbVars, runVars, toolVars>>

LedgerInit ==
    /\ dirExists = TRUE
    /\ dir = {}
    /\ outcome = "none"
    /\ orderedTags = <<>>
    /\ dropped = NoFolder
    /\ dropCall = NoDrop
    /\ bundleFile = NoBundle
    /\ newLedger = NoTable
    /\ oldLedger = NoOldTable
    /\ applied = <<>>
    /\ runs = [r \in Runners |-> IdleRun]
    /\ started = 0
    /\ log = <<>>
    /\ countAfter = <<>>
    /\ ledgerRun = NoLedgerRun
    /\ ToolsIdle

LedgerNext ==
    StartLedgerRun \/ ReconcileLedger \/ CreateLedger \/ InsertApplied \/ FinishLedgerRun

SpecLedger == LedgerInit /\ [][LedgerNext]_vars

\* ------------------------------------------------- vocabulary of the claims
Units(d) == {f \in d : f.snap = "ok"}
Emitted(f) == f.tag \in Range(orderedTags)
Occurrences(tag) == Cardinality({i \in DOMAIN orderedTags : orderedTags[i] = tag})
\* Index of the first occurrence of a tag that occurs in the output.
FirstIndex(tag) ==
    CHOOSE i \in DOMAIN orderedTags :
        orderedTags[i] = tag /\ \A j \in 1 .. i - 1 : orderedTags[j] # tag

UniqueIds(d) == \A f, g \in Units(d) : f.id = g.id => f = g
NoSentinelIds(d) == \A f \in Units(d) : f.id \notin {ROOT, EMPTY}
IsRootUnit(f) == f.prevId \in {ROOT, EMPTY}
Resolves(d, f) == \E g \in Units(d) : g.id = f.prevId

\* The units chained, directly or transitively, from the units of S.
RECURSIVE ChainClosure(_, _, _)
ChainClosure(d, S, n) ==
    IF n = 0 THEN S
    ELSE ChainClosure(d, S \cup {f \in Units(d) : \E g \in S : f.prevId = g.id}, n - 1)
ChainedFrom(d, S) ==
    ChainClosure(d, {f \in Units(d) : \E g \in S : f.prevId = g.id}, Cardinality(d))

\* The runs in which a statement of the unit with this tag was executed.
StmtRuns(tag) ==
    {log[i].run : i \in {j \in DOMAIN log : log[j].kind = "stmt" /\ log[j].tag = tag}}

\* C1: with a single runner, over successive successful migrate runs against
\* the same target with the same units, no unit's statements are executed
\* in more than one run, and the ledger row count after the second and
\* every later run equals the count after the first run.
C1_Idempotent ==
    /\ \A f \in dir : Cardinality(StmtRuns(f.tag)) <= 1
    /\ \A k \in DOMAIN countAfter : countAfter[k] = countAfter[1]

\* Two runs have returned, and the first of them applied a unit.
C1_Witness ==
    /\ Len(countAfter) >= 2
    /\ \E i \in DOMAIN log : log[i].kind = "stmt" /\ log[i].run = 1

\* The run has filled its batch and executed nothing of it yet.
BatchFilled(r) == runs[r].pc = "apply" /\ runs[r].executed = 0
Selected(r, m) == \E i \in DOMAIN runs[r].queue : runs[r].queue[i].tag = m.tag
Recorded(m) == \E i \in DOMAIN newLedger.rows : newLedger.rows[i].tag = ToString(m.tag)

\* C2: in one migrate run a unit of the ordered list is selected if and
\* only if the ledger was empty when the run read it or the largest
\* created_at of the ledger is strictly less than the unit's folderMillis;
\* nothing else decides it, not even whether the unit has a row.
C2_CutoffOnly ==
    \A r \in Runners :
        BatchFilled(r) =>
            \A i \in DOMAIN runs[r].migrations :
                Selected(r, runs[r].migrations[i])
                    <=> (newLedger.rows = <<>>
                         \/ MaxCreatedAt(newLedger.rows) < runs[r].migrations[i].folderMillis)

\* A unit that was never applied is skipped while another one is selected.
C2_Witness ==
    /\ BatchFilled(1)
    /\ \E i, j \in DOMAIN runs[1].migrations :
         /\ ~Selected(1, runs[1].migrations[i])
         /\ ~Recorded(runs[1].migrations[i])
         /\ Selected(1, runs[1].migrations[j])

\* C3 as stated: no statement of a unit is executed while the ledger, the
\* rows inserted earlier in the same run included, holds a created_at
\* greater than or equal to the unit's folderMillis.
C3_AsStated ==
    \A i \in DOMAIN log :
        log[i].kind = "stmt" => log[i].maxBefore < log[i].folderMillis

\* C3 (amended): no statement of a unit is executed unless the unit's
\* folderMillis is greater than the largest created_at the ledger held when
\* the run read it; rows the same run inserted since do not count.
C3_HighWaterMark ==
    \A i \in DOMAIN log :
        log[i].kind = "stmt" => log[i].maxAtRead < log[i].folderMillis

\* A statement is executed in a run that read a ledger with rows and has
\* inserted a row of its own since.
C3_Witness ==
    \E i \in DOMAIN log :
        /\ log[i].kind = "stmt"
        /\ log[i].maxAtRead >= 0
        /\ log[i].maxBefore > log[i].maxAtRead

\* C4 as stated: for every directory the returned sequence is a topological
\* order of prevId: if A and B are both in the output and B.prevId = A.id,
\* then A occurs before B.
C4_EveryDirectory ==
    outcome = "returned" =>
        \A A, B \in Units(dir) :
            (Emitted(A) /\ Emitted(B) /\ B.prevId = A.id)
                => FirstIndex(A.tag) < FirstIndex(B.tag)

\* C4 (amended): for every directory in which no two units share an id, the
\* returned sequence is a topological order of prevId: if A and B are both
\* in the output and B.prevId = A.id, then A occurs before B.
C4_TopologicalOrder ==
    (outcome = "returned" /\ UniqueIds(dir)) =>
        \A A, B \in Units(dir) :
            (Emitted(A) /\ Emitted(B) /\ B.prevId = A.id)
                => FirstIndex(A.tag) < FirstIndex(B.tag)

\* A parent with a later timestamp than its child, both in the output.
C4_Witness ==
    /\ outcome = "returned"
    /\ UniqueIds(dir)
    /\ \E A, B \in Units(dir) :
         /\ Emitted(A) /\ Emitted(B) /\ B.prevId = A.id
         /\ getTimestamp(B.tag) < getTimestamp(A.tag)

\* A single lineage as C5 words it: one root, unique ids, every other
\* prevId resolving to a unit.
OneRoot(d) == Cardinality({f \in Units(d) : IsRootUnit(f)}) = 1
SingleLineage(d) ==
    /\ OneRoot(d)
    /\ UniqueIds(d)
    /\ \A f \in Units(d) : IsRootUnit(f) \/ Resolves(d, f)
\* No unit is chained from itself.
Acyclic(d) == \A f \in Units(d) : f \notin ChainedFrom(d, {f})

EachUnitOnce ==
    /\ outcome = "returned"
    /\ \A f \in Units(dir) : Occurrences(f.tag) = 1
    /\ Len(orderedTags) = Cardinality(Units(dir))

\* C5 as stated: for a directory with one root, unique ids and every prevId
\* resolving to a unit, the output holds each parseable unit exactly once
\* (read here for the directories none of whose ids is a sentinel).
C5_AsStated ==
    (outcome # "none" /\ dirExists /\ SingleLineage(dir) /\ NoSentinelIds(dir))
        => EachUnitOnce

\* C5 (amended): for a directory with one root, unique ids, every prevId
\* resolving to a unit and no unit chained from itself, buildSnapshotChain
\* returns each parseable unit exactly once, so the length of its output is
\* the number of such units.
C5_EachUnitOnce ==
    (outcome # "none" /\ dirExists /\ SingleLineage(dir) /\ Acyclic(dir)) => EachUnitOnce

\* A full directory that is one lineage with a branch point.
C5_Witness ==
    /\ outcome = "returned"
    /\ SingleLineage(dir) /\ Acyclic(dir)
    /\ Cardinality(Units(dir)) = MaxFolders
    /\ \E f, g \in Units(dir) : f # g /\ f.prevId = g.prevId
    /\ Len(orderedTags) = MaxFolders

\* C6: two units of the output that share a prevId appear in ascending
\* order of their folder-name timestamps (first occurrences compared).
C6_SiblingsByTimestamp ==
    outcome = "returned" =>
        \A A, B \in Units(dir) :
            (Emitted(A) /\ Emitted(B) /\ A.prevId = B.prevId
                /\ getTimestamp(A.tag) < getTimestamp(B.tag))
                => FirstIndex(A.tag) < FirstIndex(B.tag)

\* Two siblings below a root, listed by the filesystem in the other order.
C6_Witness ==
    /\ outcome = "returned"
    /\ \E R, A, B \in Units(dir) :
         /\ R.prevId = ROOT /\ A.prevId = R.id /\ B.prevId = R.id
         /\ R.id \in OpaqueIds
         /\ getTimestamp(A.tag) < getTimestamp(B.tag)
         /\ Emitted(A) /\ Emitted(B)
         /\ FirstIndex(A.tag) + 1 = FirstIndex(B.tag)

\* A broken chain: the prevId of f is a proper id that no unit carries.
Dangling(d, f) == f \in Units(d) /\ ~IsRootUnit(f) /\ ~Resolves(d, f)
\* The units the code starts from, and everything chained from them.
RootUnits(d) ==
    IF \E f \in Units(d) : f.prevId = ROOT THEN {f \in Units(d) : f.prevId = ROOT}
    ELSE {f \in Units(d) : f.prevId = EMPTY}
RootLineage(d) == RootUnits(d) \cup ChainedFrom(d, RootUnits(d))

BrokenChainTruncated ==
    /\ \A f \in Units(dir) :
         Dangling(dir, f) =>
             /\ ~Emitted(f)
             /\ \A g \in ChainedFrom(dir, {f}) : ~Emitted(g)
    /\ \A f \in RootLineage(dir) : Emitted(f)

\* C7 as stated: a unit with a dangling prevId is absent from the output,
\* as is every unit chained from it, and the units from a root up to the
\* break remain (read here for the calls that return and the directories
\* none of whose ids is a sentinel).
C7_AsStated ==
    (outcome = "returned" /\ NoSentinelIds(dir) /\ \E f \in dir : Dangling(dir, f))
        => BrokenChainTruncated

\* C7 (amended): in a directory whose ids are unique and none of them a
\* sentinel, a unit with a dangling prevId is absent from the output, as is
\* every unit chained from it, the units from a root up to the break remain,
\* and no error is raised.
C7_BrokenChain ==
    (outcome # "none" /\ dirExists /\ UniqueIds(dir) /\ NoSentinelIds(dir)
        /\ \E f \in dir : Dangling(dir, f))
        => (outcome = "returned" /\ BrokenChainTruncated)

\* A root is kept, a dangling unit and the unit chained from it are cut.
C7_Witness ==
    /\ outcome = "returned"
    /\ UniqueIds(dir) /\ NoSentinelIds(dir)
    /\ Len(orderedTags) = 1
    /\ Cardinality(Units(dir)) = 3
    /\ \E f, g \in Units(dir) : Dangling(dir, f) /\ g.prevId = f.id

\* root -> first -> second -> third, whatever the tags.
IsThreeChain(d, first, second, third) ==
    /\ d = {first, second, third}
    /\ Cardinality(d) = 3
    /\ \A f \in d : f.snap = "ok" /\ f.id \in OpaqueIds
    /\ UniqueIds(d)
    /\ first.prevId = ROOT
    /\ second.prevId = first.id
    /\ third.prevId = second.id
\* dropMigration removed the middle unit of a three-unit chain.
MiddleDropped(first, third) ==
    /\ dropped # NoFolder
    /\ first \in dir /\ third \in dir
    /\ IsThreeChain(dir \cup {dropped}, first, dropped, third)

\* C8 as stated: after the middle folder is dropped, reading the chain
\* again yields [first, third].
C8_AsStated ==
    \A first, third \in dir :
        (MiddleDropped(first, third) /\ outcome # "none")
            => (outcome = "returned" /\ orderedTags = <<first.tag, third.tag>>)

\* C8 (amended): three units chained root -> first -> second -> third
\* resolve to [first, second, third]; after the middle unit's folder is
\* dropped, reading the chain again yields [first] with no error, because
\* the prevId of third no longer resolves.
C8_DropMiddle ==
    /\ \A first, second, third \in dir :
         (IsThreeChain(dir, first, second, third) /\ outcome # "none")
             => (outcome = "returned"
                 /\ orderedTags = <<first.tag, second.tag, third.tag>>)
    /\ \A first, third \in dir :
         (MiddleDropped(first, third) /\ outcome # "none")
             => (outcome = "returned" /\ orderedTags = <<first.tag>>)

\* The chain has been read again after the drop of the middle unit.
C8_Witness ==
    /\ outcome = "returned"
    /\ \E first, third \in dir : MiddleDropped(first, third)

\* C9: buildSnapshotChain returns [] without throwing for a directory that
\* does not exist, for an empty one, and for one whose subfolders all lack
\* a snapshot document.
C9_EmptyOrMissing ==
    (outcome # "none" /\ (~dirExists \/ \A f \in dir : f.snap = "none"))
        => (outcome = "returned" /\ orderedTags = <<>>)

\* The folders whose snapshot document fails to parse.
Malformed(d) == {f \in d : f.snap = "bad"}
\* The results buildSnapshotChain can give for the folders of d.
ResultsOver(d) == ChainResults(TRUE, d)
\* With the malformed document repaired, some id and prevId would put every
\* unit of the directory into the output.
Repairable(d, bad) ==
    \E i \in Ids, p \in PrevIds :
        LET fixed == (d \ {bad}) \cup {Folder(bad.tag, "ok", i, p, bad.sql)}
        IN  \E r \in ResultsOver(fixed) :
                r.outcome = "returned" /\ Range(r.tags) = {f.tag : f \in Units(fixed)}

\* C10 as stated: with one malformed snapshot document the call does not
\* throw and excludes only that unit; every other parseable unit appears.
C10_AsStated ==
    \A bad \in Malformed(dir) :
        (outcome # "none" /\ Malformed(dir) = {bad} /\ Repairable(dir, bad))
            => /\ outcome = "returned"
               /\ ~Emitted(bad)
               /\ \A f \in Units(dir) : Emitted(f)

\* C10 (amended): a malformed snapshot document does not make the call
\* throw, and the call returns what it returns for the directory without
\* that folder: the unit is excluded together with the units whose prevId
\* chain leads to it, and the others are unaffected.
C10_MalformedSkipped ==
    (outcome # "none" /\ dirExists /\ Malformed(dir) # {})
        => /\ \A bad \in Malformed(dir) : ~Emitted(bad)
           /\ [outcome |-> outcome, tags |-> orderedTags]
                  \in ResultsOver(dir \ Malformed(dir))

\* One malformed folder beside a root and its child, both in the output.
C10_Witness ==
    /\ outcome = "returned"
    /\ Cardinality(Malformed(dir)) = 1
    /\ Len(orderedTags) = 2
    /\ \E f, g \in Units(dir) : f.prevId = ROOT /\ g.prevId = f.id /\ f # g

\* The units whose prevId is either root sentinel, and what is chained from them.
SentinelRoots(d) == {f \in Units(d) : IsRootUnit(f)}
SentinelLineage(d) == SentinelRoots(d) \cup ChainedFrom(d, SentinelRoots(d))

\* C11: every unit whose prevId is the ROOT sentinel or the empty string is
\* treated as a root: it and its resolvable descendants appear in the
\* output, also when units of both kinds are in the same directory (read
\* for directories whose ids are unique and none of them a sentinel).
C11_BothSentinels ==
    (outcome # "none" /\ dirExists /\ UniqueIds(dir) /\ NoSentinelIds(dir))
        => /\ outcome = "returned"
           /\ \A f \in SentinelLineage(dir) : Emitted(f)

\* What the run with this number had executed, in order.
RunLog(n) == LET OfRun(e) == e.run = n IN SelectSeq(log, OfRun)
\* The place of a unit in the ordered list the run read.
Place(migrations, tag) == CHOOSE i \in DOMAIN migrations : migrations[i].tag = tag
\* The units the run selected: those above the mark it read.
SelectedTags(run) ==
    {run.migrations[i].tag : i \in {j \in DOMAIN run.migrations :
                                      run.maxAtRead < run.migrations[j].folderMillis}}
InsertsOf(L, tag) == Cardinality({i \in DOMAIN L : L[i].kind = "insert" /\ L[i].tag = tag})

\* The entries of one run follow the order of the claim: statement k comes
\* right after statement k - 1 of the same unit, the insert right after the
\* unit's last statement, and a unit's first statement right after the
\* insert of a unit that precedes it in the chain.
InChainOrder(L, migrations) ==
    \A i \in DOMAIN L :
        /\ (L[i].kind = "stmt" /\ L[i].k > 1)
               => /\ i > 1
                  /\ L[i - 1].kind = "stmt"
                  /\ L[i - 1].tag = L[i].tag
                  /\ L[i - 1].k = L[i].k - 1
        /\ (L[i].kind = "stmt" /\ L[i].k = 1 /\ i > 1)
               => /\ L[i - 1].kind = "insert"
                  /\ Place(migrations, L[i - 1].tag) < Place(migrations, L[i].tag)
        /\ L[i].kind = "insert"
               => /\ i > 1
                  /\ L[i - 1].kind = "stmt"
                  /\ L[i - 1].tag = L[i].tag
                  /\ L[i - 1].k = FolderOf(dir, L[i].tag).sql
                  /\ L[i].hash = Hash(FolderOf(dir, L[i].tag))
                  /\ L[i].folderMillis = L[i].tag

\* C12: for the units selected in a run, execution follows chain order; all
\* statements of a selected unit run in file order and are followed by
\* exactly one ledger insert with the unit's hash, folderMillis and tag,
\* before any statement of the next unit.
C12_ExecutionOrder ==
    /\ \A r \in Runners :
         /\ InChainOrder(RunLog(runs[r].no), runs[r].migrations)
         /\ runs[r].status = "returned"
                => \A t \in SelectedTags(runs[r]) : InsertsOf(RunLog(runs[r].no), t) = 1
    /\ (log # <<>> /\ log[Len(log)].kind = "insert")
           => newLedger.rows[Len(newLedger.rows)]
                  = Row(Hash(FolderOf(dir, log[Len(log)].tag)),
                        log[Len(log)].tag, ToString(log[Len(log)].tag))

\* A run has returned after applying two units, one of them with two
\* statements and the later in the chain with the smaller timestamp.
C12_Witness ==
    /\ runs[1].status = "returned"
    /\ \E i, j \in DOMAIN RunLog(runs[1].no) :
         /\ i < j
         /\ RunLog(runs[1].no)[i].kind = "insert"
         /\ RunLog(runs[1].no)[j].kind = "insert"
         /\ RunLog(runs[1].no)[j].tag < RunLog(runs[1].no)[i].tag
    /\ \E e \in Range(RunLog(runs[1].no)) : e.kind = "stmt" /\ e.k = 2

IsPrefix(s, t) == Len(s) <= Len(t) /\ SubSeq(t, 1, Len(s)) = s

\* C13: a migrate run only appends to the ledger: every row the ledger held
\* when the run started is still there, with the same hash, created_at and
\* tag, during the run and after it, whether or not the run applies a unit.
C13_AppendOnly ==
    \A r \in Runners : IsPrefix(runs[r].before.new.rows, newLedger.rows)

\* A run that started on a ledger with a row has returned after inserting
\* another one.
C13_Witness ==
    /\ runs[1].status = "returned"
    /\ runs[1].before.new.rows # <<>>
    /\ Len(newLedger.rows) > Len(runs[1].before.new.rows)

\* How often a statement is in effect in the target.
TimesApplied(stmts, tag, k) ==
    Cardinality({i \in DOMAIN stmts : stmts[i] = <<tag, k>>})
RowsTagged(rows, tag) ==
    Cardinality({i \in DOMAIN rows : rows[i].tag = ToString(tag)})
\* The run of runner r has ended with the failure of an entry of its batch.
FailedInApply(r) ==
    /\ runs[r].status = "threw"
    /\ \E e \in Range(RunLog(runs[r].no)) : e.kind = "failed"

\* C14: when a statement fails during the apply phase, no later statement
\* and no later ledger insert of that run is executed; on a target that
\* runs the apply inside a transaction, the partially applied unit is rolled
\* back and leaves no ledger row.
C14_FailureAborts ==
    /\ \A i, j \in DOMAIN log :
         (i < j /\ log[i].kind = "failed") => log[j].run # log[i].run
    /\ \A r \in Runners :
         (FailedInApply(r) /\ Transactional(runs[r].driver))
             => \A e \in Range(RunLog(runs[r].no)) :
                    e.kind = "failed"
                        => /\ RowsTagged(newLedger.rows, e.tag)
                                  = RowsTagged(runs[r].before.new.rows, e.tag)
                           /\ \A k \in 1 .. MaxStmts :
                                  TimesApplied(applied, e.tag, k)
                                      = TimesApplied(runs[r].txBegin.applied, e.tag, k)

\* A transactional run has failed at the second statement of a unit, after
\* it had applied another unit in full.
C14_Witness ==
    /\ FailedInApply(1)
    /\ Transactional(runs[1].driver)
    /\ \E e, f, g \in Range(RunLog(runs[1].no)) :
         /\ e.kind = "failed" /\ e.k = 2
         /\ f.kind = "stmt" /\ f.tag = e.tag
         /\ g.kind = "insert"

\* migrateOldMigrationTable has just returned to the run of runner r; the
\* tables it found are runs[r].before.
Reconciled(r) == runs[r].pc = "create"
Populated(table) == table.exists /\ Len(table.rows) > 0

\* C15: when the new ledger table exists and holds at least one row,
\* migrateOldMigrationTable issues no CREATE and no INSERT and leaves the
\* rows of the new ledger unchanged, even if the old ledger has rows.
C15_PopulatedNewWins ==
    \A r \in Runners :
        (Reconciled(r) /\ Populated(runs[r].before.new))
            => (runs[r].issued = <<>> /\ newLedger = runs[r].before.new)

\* The call has returned on a populated new ledger beside a populated old one.
C15_Witness ==
    /\ Reconciled(1)
    /\ Populated(runs[1].before.new)
    /\ Populated(runs[1].before.old)

\* C16: when the old ledger table does not exist, or exists with zero rows,
\* migrateOldMigrationTable returns without creating the new table or
\* schema and without inserting a row.
C16_NothingToMigrate ==
    \A r \in Runners :
        (Reconciled(r) /\ ~Populated(runs[r].before.old))
            => (runs[r].issued = <<>> /\ newLedger = runs[r].before.new)

\* The call has returned on an empty old table with the new table missing.
C16_Witness ==
    /\ Reconciled(1)
    /\ runs[1].before.old.exists
    /\ runs[1].before.old.rows = <<>>
    /\ ~newLedger.exists

\* C17: when the new ledger is missing or empty and the old ledger has at
\* least one row, the call leaves the new ledger holding exactly one row per
\* old row, with the same hash and created_at, and with the old row's tag
\* when the old table has a tag column, NULL when it has none.
C17_LegacyCopied ==
    \A r \in Runners :
        (Reconciled(r) /\ ~Populated(runs[r].before.new) /\ Populated(runs[r].before.old))
            => /\ newLedger.exists
               /\ Len(newLedger.rows) = Len(runs[r].before.old.rows)
               /\ \A i \in DOMAIN newLedger.rows :
                    /\ newLedger.rows[i].hash = runs[r].before.old.rows[i].hash
                    /\ newLedger.rows[i].created_at = runs[r].before.old.rows[i].created_at
                    /\ newLedger.rows[i].tag
                           = IF runs[r].before.old.hasTag
                             THEN runs[r].before.old.rows[i].tag ELSE NULL

\* Two tagged legacy rows have been copied into a new table that was missing.
C17_Witness ==
    /\ Reconciled(1)
    /\ ~runs[1].before.new.exists
    /\ runs[1].before.old.hasTag
    /\ Len(runs[1].before.old.rows) = 2
    /\ Len(newLedger.rows) = 2

\* C18: migrateOldMigrationTable never modifies the old side: on every path
\* (no-op, successful copy, failed copy) the old table keeps exactly the
\* rows it had, and neither the table nor its schema is dropped.
C18_OldUntouched ==
    \A r \in Runners : runs[r].no > 0 => oldLedger = runs[r].before.old

\* The copy of a populated old table has failed.
C18_Witness ==
    /\ runs[1].status = "threw"
    /\ runs[1].throws = {"copy"}
    /\ runs[1].issued # <<>>
    /\ Populated(oldLedger)

\* The tables as the call takes them to be when the probes of throws throw.
SeenNew(new, throws) ==
    IF "newExists" \in throws THEN NoTable
    ELSE IF "newCount" \in throws THEN [new EXCEPT !.rows = <<>>]
    ELSE new
SeenOld(old, throws) ==
    IF "oldExists" \in throws THEN NoOldTable
    ELSE IF "oldCount" \in throws THEN [old EXCEPT !.rows = <<>>]
    ELSE IF "tagColumn" \in throws THEN [old EXCEPT !.hasTag = FALSE]
    ELSE old
\* The run of runner r ended inside migrateOldMigrationTable.
EndedInReconcile(r) ==
    /\ runs[r].status = "threw"
    /\ runs[r].pc = "idle"
    /\ RunLog(runs[r].no) = <<>>
    /\ runs[r].throws # {}
\* The call of the run of runner r is over, and a probe of it threw.
ProbeThrew(r) ==
    /\ runs[r].pc # "reconcile"
    /\ runs[r].throws # {}
    /\ runs[r].throws \subseteq Probes

\* C19: when an existence probe, a row-count probe or the tag-column probe
\* throws, the error is not propagated: the probe counts as 'table does not
\* exist', 'zero rows' or 'no tag column', and the call carries on or
\* returns normally.
C19_ProbeErrorsSwallowed ==
    \A r \in Runners :
        ProbeThrew(r)
            => /\ ~EndedInReconcile(r)
               /\ runs[r].issued
                      = CommandsToIssue(SeenNew(runs[r].before.new, runs[r].throws),
                                        SeenOld(runs[r].before.old, runs[r].throws), {})

\* The tag-column probe threw on a tagged old table and the rows were
\* copied without their tags.
C19_Witness ==
    /\ Reconciled(1)
    /\ runs[1].throws = {"tagColumn"}
    /\ runs[1].before.old.hasTag
    /\ Len(runs[1].issued) = 2
    /\ newLedger.rows # <<>>
    /\ \A i \in DOMAIN newLedger.rows : newLedger.rows[i].tag = NULL

\* The last command the call sent is one that threw.
CommandThrew(r) ==
    /\ runs[r].issued # <<>>
    /\ runs[r].issued[Len(runs[r].issued)].op \in runs[r].throws

\* C20 as stated: no failure inside migrateOldMigrationTable prevents the
\* migrate run that called it from going on to apply its pending units.
C20_AsStated ==
    \A r \in Runners : ~EndedInReconcile(r)

\* C20 (amended): a probe that throws never ends the migrate run; a CREATE
\* or a copy that throws is rethrown, and the run ends there without
\* executing anything of its units.
C20_ProbesAdvisory ==
    \A r \in Runners :
        (runs[r].pc # "reconcile" /\ runs[r].throws # {})
            => /\ EndedInReconcile(r) <=> CommandThrew(r)
               /\ CommandThrew(r) => runs[r].pc = "idle"

\* The copy threw while a unit was pending, and the run ended.
C20_Witness ==
    /\ EndedInReconcile(1)
    /\ runs[1].throws = {"copy"}
    /\ \E i \in DOMAIN runs[1].migrations :
         MaxCreatedAt(newLedger.rows) < runs[1].migrations[i].folderMillis

\* ---------------------------------------------------------------------- C21
\* C21: migrateOldMigrationTable is idempotent: once a call has returned, a
\* second call with the same configuration returns too, issues no command
\* and leaves the new ledger and the old ledger as the first call left them.
SecondCall == MigrateOldMigrationTable(newLedger, oldLedger, {})
C21_ReconcileIdempotent ==
    \A r \in Runners :
        Reconciled(r) =>
            /\ SecondCall.outcome = "returned"
            /\ SecondCall.issued = <<>>
            /\ SecondCall.db = Db(newLedger, oldLedger)

\* The first call copied a populated legacy ledger; the second runs after it.
C21_Witness ==
    /\ Reconciled(1)
    /\ Len(runs[1].issued) = 2
    /\ Populated(oldLedger)
    /\ Len(newLedger.rows) = Len(oldLedger.rows)


\* ---------------------------------------------------------------------- C22
\* A unit readMigrationFiles cannot read: its folder name has no numeric
\* prefix, or its up.sql or its snapshot.json is missing or unreadable.
Unreadable(f) == f.tag = NoPrefix \/ f.sql < 0 \/ f.snap # "ok"
AllOrNothing(d, chain, res) ==
    IF chain.outcome # "returned"
           \/ \E i \in DOMAIN chain.tags : Unreadable(FolderOf(d, chain.tags[i]))
    THEN res.outcome = "threw" /\ res.metas = <<>>
    ELSE /\ res.outcome = "returned"
         /\ Len(res.metas) = Len(chain.tags)
         /\ \A i \in DOMAIN chain.tags : res.metas[i] = MigrationMeta(FolderOf(d, chain.tags[i]))

\* C22: readMigrationFiles is all-or-nothing.  It throws when the folder
\* does not exist, when buildSnapshotChain throws, and when a unit of the
\* chain has no numeric prefix or lacks a readable up.sql or snapshot.json;
\* otherwise it returns one entry per unit of the chain, in the chain's
\* order.  It never returns a list shorter than the chain.
C22_AllOrNothing ==
    /\ \A ls \in Listings(dir) :
           AllOrNothing(dir, BuildSnapshotChain(dirExists, ls),
                        ReadMigrationFiles(dirExists, dir, ls))
    /\ read # NoRead =>
           \E ls \in Listings(dir) :
               AllOrNothing(dir, BuildSnapshotChain(dirExists, ls), read)

\* A chain of two units, the second without up.sql: the call threw, it did
\* not return the first unit alone.
C22_Witness ==
    /\ read.outcome = "threw"
    /\ \E r \in ChainResults(dirExists, dir) :
           /\ r.outcome = "returned"
           /\ Len(r.tags) = 2
           /\ ~Unreadable(FolderOf(dir, r.tags[1]))
           /\ FolderOf(dir, r.tags[2]).sql < 0


\* --------------------------------------------------------------- C23 .. C28
\* The last generateFromJournal call went through the loop over the entries,
\* to its end or to an exception.
Converted == conv.outcome \in {"returned", "threw"} /\ conv.chain.outcome = "returned"
\* The chain computed over the destination as that call found it.
ChainBefore == IF conv.exists THEN Range(conv.chain.tags) ELSE {}
\* The entries of the journal that call read, and those already in the chain.
EntriesBefore == conv.legacy.entries
AlreadyThere == {k \in DOMAIN EntriesBefore : EntriesBefore[k].when \in ChainBefore}

\* C23: a journal entry whose destination folder is in the chain computed
\* over the destination is counted as skipped, and its folder is neither
\* written again nor changed.
C23_RerunSkips ==
    Converted =>
        /\ \A k \in AlreadyThere :
               /\ EntriesBefore[k].when \notin Range(conv.written)
               /\ \E f \in conv.dir \cap dir : f.tag = EntriesBefore[k].when
        /\ conv.outcome = "returned" => conv.skippedCount = Cardinality(AlreadyThere)

\* A second real run over a journal of two entries, both converted by the
\* first run and in the chain since.
C23_Witness ==
    /\ conv.no = 2
    /\ ~conv.dryRun
    /\ conv.outcome = "returned"
    /\ Cardinality(AlreadyThere) = 2
    /\ conv.skippedCount = 2
    /\ Cardinality(conv.dir) = 2

\* C24: a dry run creates no folder and writes no file: the destination and
\* the source are after the call what they were before it.
C24_DryRunWritesNothing ==
    (conv.outcome # "none" /\ conv.dryRun) =>
        /\ conv.written = <<>>
        /\ dirExists = conv.exists
        /\ dir = conv.dir
        /\ legacy = conv.legacy

\* A dry run that would generate two folders into a destination that does
\* not exist yet.
C24_Witness ==
    /\ conv.dryRun
    /\ conv.outcome = "returned"
    /\ conv.migratedCount = 2
    /\ ~conv.exists
    /\ ~dirExists

\* C25: over the same source and destination, a dry run and a real run end
\* with the same migratedCount and the same skippedCount.
C25_SameCounts ==
    \A ls \in Listings(dir) :
        LET dry == GenerateFromJournal(legacy, dirExists, dir, ls, TRUE)
            real == GenerateFromJournal(legacy, dirExists, dir, ls, FALSE)
        IN  /\ dry.outcome = real.outcome
            /\ dry.migratedCount = real.migratedCount
            /\ dry.skippedCount = real.skippedCount

\* C26: after any run every legacy source file is still present with the
\* content it had: the source directory is what it was before the call.
C26_SourceUntouched ==
    conv.outcome # "none" => legacy = conv.legacy

\* A real run that copied two entries.
C26_Witness ==
    /\ ~conv.dryRun
    /\ conv.outcome = "returned"
    /\ Len(conv.written) = 2
    /\ Len(legacy.entries) = 2
    /\ \A k \in DOMAIN legacy.entries : legacy.entries[k].sql.exists

\* The legacy layout is invalid: the folder, the metadata folder or the index
\* is missing, the index is malformed, or an entry lacks its snapshot or its
\* SQL file.
InvalidLayout(L) ==
    \/ ~L.exists
    \/ ~L.meta
    \/ L.journal # "ok"
    \/ \E k \in DOMAIN L.entries : L.entries[k].snap = "none" \/ ~L.entries[k].sql.exists

\* C27: on an invalid legacy layout generateFromJournal ends (process.exit
\* or an exception) before it creates a folder or writes a file.
C27_InvalidAborts ==
    (conv.outcome # "none" /\ InvalidLayout(conv.legacy)) =>
        /\ conv.outcome \in {"exit", "threw"}
        /\ conv.written = <<>>
        /\ dirExists = conv.exists
        /\ dir = conv.dir

\* A real run over a journal whose first entry is complete and whose second
\* entry lacks its SQL file: nothing of the first entry is written either.
C27_Witness ==
    /\ ~conv.dryRun
    /\ conv.outcome = "exit"
    /\ Len(conv.legacy.entries) = 2
    /\ conv.legacy.entries[1].snap = "ok" /\ conv.legacy.entries[1].sql.exists
    /\ ~conv.legacy.entries[2].sql.exists
    /\ dir = {}

\* C28: after a conversion, the script readMigrationFiles reads for each
\* converted unit is, byte for byte, the legacy .sql file of its journal
\* entry.
C28_RoundTrip ==
    (conv.outcome = "returned" /\ ~conv.dryRun /\ read.outcome = "returned") =>
        \A k \in DOMAIN EntriesBefore \ AlreadyThere :
            (\E i \in DOMAIN read.metas : read.metas[i].tag = EntriesBefore[k].when) =>
                \E f \in dir :
                    /\ f.tag = EntriesBefore[k].when
                    /\ Encode(ReadScript(f.script)) = EntriesBefore[k].sql.bytes


\* ---------------------------------------------------------------------- C29
\* C29: between two resets readLegacyDrizzleConfig reads the filesystem at
\* most once, and exactly once when it is called at all: every call after
\* the first returns what the first returned, whatever has happened to the
\* file in between.
C29_ReadOnce ==
    /\ cfg.reads <= 1
    /\ cfg.calls > 0 => cfg.reads = 1
    /\ cfg.last = cfg.first


\* ---------------------------------------------------------------------- C30
\* C30: dropMigration deletes exactly the folder of the selected unit, a
\* unit of the chain: every other folder is left as it was, with its up.sql
\* and its snapshot.json; and it deletes nothing when the chain is empty,
\* when the selection is aborted, or when reading the chain throws.
C30_DropsOnlySelected ==
    /\ dropCall.status = "deleted" =>
           /\ dropped \in dropCall.dir
           /\ \E r \in ChainResults(dirExists, dropCall.dir) : dropped.tag \in Range(r.tags)
           /\ dir = dropCall.dir \ {dropped}
    /\ dropCall.status \in {"empty", "aborted", "threw"} => dir = dropCall.dir
    /\ dropCall.status = "empty" =>
           \E r \in ChainResults(dirExists, dropCall.dir) : r = Returned(<<>>)

\* The first unit of a three-unit directory was dropped; the two after it
\* are on disk with both their files.
C30_Witness ==
    /\ dropCall.status = "deleted"
    /\ Cardinality(dropCall.dir) = 3
    /\ Cardinality(dir) = 2
    /\ \A f \in dir : f.tag > dropped.tag /\ f.snap = "ok" /\ f.sql >= 0


\* ---------------------------------------------------------------------- C31
\* C31: with bundle set, the migrations.js that dropMigration writes is
\* built after the deletion: it lists the chain of the directory without
\* the dropped folder, and so never the dropped unit; without bundle, and
\* on the paths that delete nothing, migrations.js is not written.
C31_BundleAfterDelete ==
    /\ (dropCall.status = "deleted" /\ dropCall.bundle /\ bundleFile.written) =>
           /\ \E ls \in Listings(dir) :
                  BuildSnapshotChain(dirExists, ls) = Returned(bundleFile.tags)
           /\ dropped.tag \notin Range(bundleFile.tags)
    /\ (dropCall.status = "deleted" /\ dropCall.bundle /\ ~bundleFile.written) =>
           \E ls \in Listings(dir) : BuildSnapshotChain(dirExists, ls).outcome # "returned"
    /\ ~(dropCall.status = "deleted" /\ dropCall.bundle) => bundleFile = NoBundle

\* The last unit of a chain of three was dropped with bundle set: the
\* bundle lists the two units that are left.
C31_Witness ==
    /\ dropCall.status = "deleted"
    /\ dropCall.bundle
    /\ bundleFile.written
    /\ Len(bundleFile.tags) = 2
    /\ \E r \in ChainResults(dirExists, dropCall.dir) :
           Len(r.tags) = 3 /\ r.tags[3] = dropped.tag


\* ---------------------------------------------------------------------- C32
\* C32: a driver that builds the ledger itself creates and writes only the
\* table named by config.migrationsTable when that is given, and only
\* __wizzle_migrations when it is not.
C32_LedgerTable ==
    \A t \in ledgerRun.created \cup {row[1] : row \in ledgerRun.rows} :
        t = IF ledgerRun.migrationsTable = Undefined
            THEN WizzleTable
            ELSE ledgerRun.migrationsTable


\* ---------------------------------------------------------------------- C33
Copied(run) == \E i \in DOMAIN run.issued : run.issued[i].op = "copy"
StepsInOrder(run) ==
    \E n \in 0 .. 3 : run.steps = SubSeq(<<"reconcile", "create", "read">>, 1, n)
MarkRead(run) == run.steps = <<"reconcile", "create", "read">>

\* C33 as stated: the reconciliation, then the table creation, then one
\* read of the mark, all before the first unit statement; and in every run
\* no unit at or below the legacy ledger's largest created_at is applied.
C33_AsStated ==
    \A r \in Runners :
        /\ StepsInOrder(runs[r])
        /\ (runs[r].pc = "apply" \/ RunLog(runs[r].no) # <<>>) => MarkRead(runs[r])
        /\ \A i \in DOMAIN RunLog(runs[r].no) :
               RunLog(runs[r].no)[i].folderMillis > MaxCreatedAt(runs[r].before.old.rows)

\* C33: in every migrate run the reconciliation and the table creation
\* complete, in that order, before the mark is read; the mark is read once,
\* before any unit statement executes; and in a run whose reconciliation
\* copied the legacy rows the mark is at least the legacy ledger's largest
\* created_at and no unit at or below it is applied.
C33_MarkAfterReconcile ==
    \A r \in Runners :
        /\ StepsInOrder(runs[r])
        /\ (runs[r].pc = "apply" \/ RunLog(runs[r].no) # <<>>) => MarkRead(runs[r])
        /\ (Copied(runs[r]) /\ MarkRead(runs[r])) =>
               runs[r].maxAtRead >= MaxCreatedAt(runs[r].before.old.rows)
        /\ Copied(runs[r]) =>
               \A i \in DOMAIN RunLog(runs[r].no) :
                   RunLog(runs[r].no)[i].folderMillis > MaxCreatedAt(runs[r].before.old.rows)

\* A run copied a legacy ledger whose largest created_at is 1 into a
\* missing new ledger and has then applied the unit 2 and not the unit 1.
C33_Witness ==
    /\ Copied(runs[1])
    /\ MaxCreatedAt(runs[1].before.old.rows) = 1
    /\ \E f \in dir : f.tag = 1 /\ f.tag \in {m.tag : m \in Range(runs[1].migrations)}
    /\ \E i \in DOMAIN RunLog(runs[1].no) :
           RunLog(runs[1].no)[i].kind = "insert" /\ RunLog(runs[1].no)[i].folderMillis = 2


\* ---------------------------------------------------------------------- C34
\* C34: whatever the probes answer, a row-count probe that throws included,
\* migrateOldMigrationTable adds no legacy row to a new ledger that holds
\* at least one row: the rows of such a ledger are the same after the call.
C34_PopulatedAlwaysWins ==
    \A r \in Runners :
        (runs[r].no > 0 /\ runs[r].pc # "reconcile" /\ RunLog(runs[r].no) = <<>>
            /\ Populated(runs[r].before.new))
            => newLedger.rows = runs[r].before.new.rows


\* ---------------------------------------------------------------------- C35
BothReturned == \A r \in Runners : runs[r].status = "returned"
SelectedByBoth == SelectedTags(runs[1]) \cap SelectedTags(runs[2])

\* C35: two interleaved migrate runs double-apply: a unit that both runs
\* selected, each having read the mark before the other inserted the
\* unit's row, has every statement executed twice or more and two ledger
\* rows or more once both runs have returned.
C35_DoubleApply ==
    BothReturned =>
        \A t \in SelectedByBoth :
            /\ RowsTagged(newLedger.rows, t) >= 2
            /\ \A k \in 1 .. FolderOf(dir, t).sql : TimesApplied(applied, t, k) >= 2

\* Two sqlite-proxy runs have returned; both selected the same unit, its
\* statements are in effect twice and the ledger holds two rows for it.
C35_Witness ==
    /\ BothReturned
    /\ \A r \in Runners : runs[r].driver = "sqlite-proxy"
    /\ \E t \in SelectedByBoth :
         /\ RowsTagged(newLedger.rows, t) = 2
         /\ \A k \in 1 .. FolderOf(dir, t).sql : TimesApplied(applied, t, k) = 2


\* ---------------------------------------------------------------------- C36
\* The siblings of A that the sort puts after it for their timestamps.
LaterSiblings(d, A) ==
    {S \in Units(d) : S.prevId = A.prevId /\ getTimestamp(A.tag) < getTimestamp(S.tag)}
\* B occurs after place i with no later sibling of A in between.
InBlockAfter(d, A, i, B) ==
    \E j \in DOMAIN orderedTags :
        /\ i < j
        /\ orderedTags[j] = B.tag
        /\ \A k \in i + 1 .. j : orderedTags[k] \notin {S.tag : S \in LaterSiblings(d, A)}

\* C36: the output is a pre-order walk: after each occurrence of a unit
\* come the units chained from it, directly or transitively, all of them
\* before the unit's next sibling in timestamp order; the output starts
\* with a root, and the roots, which are siblings of each other, come in
\* ascending timestamp order, each with its whole lineage before the next.
C36_PreOrder ==
    outcome = "returned" =>
        /\ \A A \in Units(dir) :
             \A i \in DOMAIN orderedTags :
                 orderedTags[i] = A.tag =>
                     \A B \in ChainedFrom(dir, {A}) : InBlockAfter(dir, A, i, B)
        /\ orderedTags # <<>> => orderedTags[1] \in {R.tag : R \in RootUnits(dir)}
        /\ \A R, S \in RootUnits(dir) :
             getTimestamp(R.tag) < getTimestamp(S.tag) => FirstIndex(R.tag) < FirstIndex(S.tag)

\* Two roots, the earlier of them with a child whose timestamp is later
\* than the second root's: the child comes between the roots.
C36_Witness ==
    /\ outcome = "returned"
    /\ Len(orderedTags) = 3
    /\ \E A, B, S \in Units(dir) :
         /\ A.prevId = ROOT /\ S.prevId = ROOT /\ B.prevId = A.id
         /\ getTimestamp(A.tag) < getTimestamp(S.tag)
         /\ getTimestamp(S.tag) < getTimestamp(B.tag)
         /\ orderedTags = <<A.tag, B.tag, S.tag>>


\* ---------------------------------------------------------------------- C37
\* C37: buildSnapshotChain is a function of the directory's contents: every
\* order in which the filesystem can list the folders gives the same
\* result, also when sibling units have equal timestamps or a folder name
\* has no numeric prefix.
C37_Deterministic ==
    \A ls1, ls2 \in Listings(dir) :
        BuildSnapshotChain(dirExists, ls1) = BuildSnapshotChain(dirExists, ls2)


\* ---------------------------------------------------------------------- C38
\* C38: buildSnapshotChain terminates for every directory, whatever the ids
\* and prevIds of its snapshots: no call ends in the recursion of traverse
\* running until the call stack is exhausted.
C38_Terminates == outcome # "overflow"


\* ---------------------------------------------------------------------- C39
\* C39: after a real run of generateFromJournal into an empty destination
\* that returned, the number of migration folders in the destination is
\* migratedCount and is the number of journal entries: no entry's files
\* have replaced another entry's.
C39_DistinctFolders ==
    (conv.outcome = "returned" /\ ~conv.dryRun /\ conv.dir = {}) =>
        /\ Cardinality(dir) = conv.migratedCount
        /\ conv.migratedCount = Len(EntriesBefore)

====
